---- MODULE Spec2Model ----
(***************************************************************************)
(* Minumate React frontend: the ApiContext axios wrapper, the route guards *)
(* of App.js, the user dashboard's task updates, the admin ProjectForm,    *)
(* the transcript input of the Home page and the failure handling of the   *)
(* components' request handlers.  Each component is a state machine of its *)
(* own (React state + requests in flight); a specification per component   *)
(* leaves the other components' variables unchanged.                       *)
(***************************************************************************)
EXTENDS Integers, Sequences, FiniteSets, TLC

VARIABLES
  \* ---- ApiContext.js ----
  token,          \* localStorage 'token': NoToken or a token string
  apiInFlight,    \* the HTTP requests issued by ApiProvider functions, not yet answered
  apiOutcome      \* what the last answered call gave its caller (returned / thrown Error)

VARIABLES
  \* ---- App.js (AuthContext state, react-router) ----
  authLoading,      \* useAuth().loading
  isAuthenticated,  \* useAuth().isAuthenticated
  user,             \* useAuth().user: NoUser or a user object
  history,          \* the browser history stack; its last entry is the location
  rendered          \* what AppContent renders at the location

VARIABLES
  \* ---- UserDashboard.js ----
  serverTasks,   \* the status the server holds for each of the user's tasks
  tasks,         \* useState tasks: the displayed task list ([] before the first load)
  meetings,      \* useState meetings: the displayed meeting list
  dashLoading,   \* useState loading
  dashError,     \* useState error
  puts,          \* the PUT /api/user/tasks/{id} requests of updateTaskStatus in flight
  loads          \* the running loadUserData calls, each at its await

VARIABLES
  \* ---- Admin.js: the Projects tab and ProjectForm ----
  serverProjects,    \* the projects the server holds
  projects,          \* useState projects: the list the tab displays
  showProjectModal,  \* useState showProjectModal
  showProjectDetailsModal, \* useState showProjectDetailsModal
  showLinkMeetingModal,    \* useState showLinkMeetingModal
  selectedProject,   \* useState selectedProject: NoProject or a project of the list
  formData,          \* ProjectForm's useState formData
  projReqs,          \* the project requests of Admin in flight
  projToast          \* the last toast of the project handlers

VARIABLES
  \* ---- Home.js and TranscriptInput.js ----
  transcript,    \* TranscriptInput's useState transcript
  file,          \* TranscriptInput's useState file: NoFile or the loaded File
  readers,       \* the FileReaders whose readAsText has not fired onload yet
  isLoading,     \* Home's useState isLoading
  results,       \* Home's useState results
  homeError,     \* Home's useState error
  analyzeReqs,   \* the analyze requests of handleAnalyze in flight
  homeToast      \* the last toast shown by Home or TranscriptInput

VARIABLES
  \* ---- AuthPage (ManagerPage.js 472-694) ----
  isLogin,       \* useState isLogin
  authForm,      \* useState formData of AuthPage
  localError,    \* useState localError
  authReqs       \* the login / register calls of useAuth() not yet answered

authVars == <<isLogin, authForm, localError, authReqs>>

VARIABLES
  \* ---- EmailGeneration (part_003 1-540) ----
  selectedParticipant,   \* useState selectedParticipant
  selectedParticipants,  \* useState selectedParticipants (bulk selection)
  currentEmail,          \* useState currentEmail
  editedEmails,          \* useState editedEmails
  isEditing,             \* useState isEditing
  emailData,             \* useState emailData
  trackingEnabled,       \* useState trackingEnabled
  isSending,             \* useState isSending
  isBulkSending,         \* useState isBulkSending
  singleSend,            \* the sendEmail call of handleSendEmail not yet answered
  bulkSend,              \* the running loop of handleBulkSendEmails
  emailToast,            \* the toast the last step of EmailGeneration showed, if any
  edits                  \* how many times the user has changed an input

emailVars == <<selectedParticipant, selectedParticipants, currentEmail, editedEmails,
               isEditing, emailData, trackingEnabled, isSending, isBulkSending,
               singleSend, bulkSend, emailToast, edits>>

VARIABLES
  \* ---- Admin: the four data loads (Admin.js 125-159, 195-392, 1110-1123) ----
  emailLoading,    \* useState emailLoading
  userLoading,     \* useState userLoading
  meetingLoading,  \* useState meetingLoading
  projectLoading,  \* useState projectLoading
  loadsInFlight,   \* per data set, the load requests not yet answered
  adminToast,      \* the last toast of a load of Admin
  emailFilters,    \* useState emailFilters: its search text (currentPage is always 1)
  emails,          \* useState emails and stats: the search text they were returned for
  emailReqs        \* the search texts of the getEmailsAdmin requests not yet answered

adminVars == <<emailLoading, userLoading, meetingLoading, projectLoading, loadsInFlight, adminToast,
               emailFilters, emails, emailReqs>>

VARIABLES
  \* ---- useApi (ApiContext.js 4, 412-464) ----
  apiProviders,   \* the values of the ApiProviders above the calling components, outermost first
  useApiOutcome   \* what the last call of useApi did: its caller and the value returned or the Error thrown

hookVars == <<apiProviders, useApiOutcome>>

VARIABLES
  \* ---- Manager (ManagerPage.js 7-51), after loadData has answered ----
  managerSelected,       \* useState selectedProject of Manager: its id, 0 for null
  projectMeetings,       \* useState projectMeetings: the project the list was returned for
  projectMeetingsReqs,   \* the project ids of the getManagerProjectMeetings calls not yet answered
  managerToast           \* the last toast of Manager

managerVars == <<managerSelected, projectMeetings, projectMeetingsReqs, managerToast>>

apiVars == <<token, apiInFlight, apiOutcome>>
routeVars == <<authLoading, isAuthenticated, user, history, rendered>>
dashVars == <<serverTasks, tasks, meetings, dashLoading, dashError, puts, loads>>

projVars == <<serverProjects, projects, showProjectModal, showProjectDetailsModal,
              showLinkMeetingModal, selectedProject, formData, projReqs, projToast>>

homeVars == <<transcript, file, readers, isLoading, results, homeError, analyzeReqs, homeToast>>

vars == <<apiVars, routeVars, dashVars, projVars, homeVars, authVars, emailVars, adminVars, hookVars, managerVars>>

(***************************************************************************)
(* ApiContext.js                                                           *)
(***************************************************************************)

NoToken == "NO_TOKEN"
Tokens == {"tokA", "tokB"}

\* bound: HTTP requests of ApiProvider in flight at once
MaxApiInFlight == 1

NoHeader == <<>>
Absent == "ABSENT"

\* functions whose catch reads error.response.data.error (the legacy endpoints)
ErrorFieldFns ==
  {"analyzeTranscriptAjax", "sendEmail", "getEmailStatus", "getEmailsAdmin",
   "getEmailDetails", "cleanupEmails"}

\* functions whose catch reads error.response.data.detail (the /api/... endpoints)
DetailFieldFns ==
  {"analyzeTranscript", "getAllUsers", "updateUser", "deleteUser",
   "getAllMeetings", "getMeetingDetails", "createMeeting", "updateMeeting",
   "deleteMeeting", "addMeetingParticipant", "removeMeetingParticipant",
   "getAllProjects", "getProjectDetails", "createProject", "updateProject",
   "deleteProject", "linkMeetingToProject", "unlinkMeetingFromProject",
   "getUnlinkedMeetings", "getMeetingProjects", "getManagerProjects",
   "getManagerMeetings", "getManagerProjectDetails",
   "getManagerProjectMeetings", "analyzeAndCreateTrelloCards"}

\* the functions of the provider's value
ApiFns == ErrorFieldFns \cup DetailFieldFns

\* const getAuthHeaders = () => token ? { Authorization: `Bearer ${token}` } : {}
getAuthHeaders(tok) ==
  IF tok # NoToken THEN <<"Bearer", tok>> ELSE NoHeader

\* the functions whose axios call passes { headers } built from getAuthHeaders()
NoHeadersFns == {"getEmailStatus", "getEmailsAdmin", "getEmailDetails", "cleanupEmails"}

SpreadsAuthHeaders(fn) == fn \notin NoHeadersFns

\* the Authorization header of the request fn issues when localStorage holds tok
RequestAuthorization(fn, tok) ==
  IF SpreadsAuthHeaders(fn) THEN getAuthHeaders(tok) ELSE NoHeader

\* the message of the Error a function throws when nothing usable came back
FallbackMessage(fn) ==
  CASE fn \in {"analyzeTranscript", "analyzeTranscriptAjax"} -> "Failed to analyze transcript"
    [] fn = "sendEmail" -> "Failed to send email"
    [] fn = "getEmailStatus" -> "Failed to get email status"
    [] fn = "getEmailsAdmin" -> "Failed to get emails"
    [] fn = "getEmailDetails" -> "Failed to get email details"
    [] fn = "cleanupEmails" -> "Failed to cleanup emails"
    [] fn = "getAllUsers" -> "Failed to get users"
    [] fn = "updateUser" -> "Failed to update user"
    [] fn = "deleteUser" -> "Failed to delete user"
    [] fn \in {"getAllMeetings", "getManagerMeetings"} -> "Failed to get meetings"
    [] fn = "getMeetingDetails" -> "Failed to get meeting details"
    [] fn = "createMeeting" -> "Failed to create meeting"
    [] fn = "updateMeeting" -> "Failed to update meeting"
    [] fn = "deleteMeeting" -> "Failed to delete meeting"
    [] fn = "addMeetingParticipant" -> "Failed to add participant"
    [] fn = "removeMeetingParticipant" -> "Failed to remove participant"
    [] fn \in {"getAllProjects", "getManagerProjects"} -> "Failed to get projects"
    [] fn \in {"getProjectDetails", "getManagerProjectDetails"} -> "Failed to get project details"
    [] fn = "createProject" -> "Failed to create project"
    [] fn = "updateProject" -> "Failed to update project"
    [] fn = "deleteProject" -> "Failed to delete project"
    [] fn = "linkMeetingToProject" -> "Failed to link meeting to project"
    [] fn = "unlinkMeetingFromProject" -> "Failed to unlink meeting from project"
    [] fn = "getUnlinkedMeetings" -> "Failed to get unlinked meetings"
    [] fn = "getMeetingProjects" -> "Failed to get meeting projects"
    [] fn = "getManagerProjectMeetings" -> "Failed to get project meetings"
    [] fn = "analyzeAndCreateTrelloCards" -> "Failed to analyze and create Trello cards"

\* the bodies a failed request can come back with: no response at all (network
\* error), or a response whose data has each of detail and error absent, empty
\* or a message
ServerMessages == {"server detail", "server error"}
NoResponse == [response |-> FALSE, detail |-> Absent, error |-> Absent]
ErrorBodies ==
  {NoResponse} \cup
  {[response |-> TRUE, detail |-> d, error |-> e] :
     d \in {Absent, "", "server detail"}, e \in {Absent, "", "server error"}}

\* JavaScript a || b on strings: undefined and '' are falsy
Falsy(v) == v \in {Absent, ""}
OrElse(a, b) == IF Falsy(a) THEN b ELSE a

\* error.response?.data?.detail and error.response?.data?.error
ResponseField(body, field) ==
  IF ~body.response THEN Absent
  ELSE IF field = "detail" THEN body.detail ELSE body.error

\* the field of the response data a function's catch block reads
ErrorField(fn) == IF fn \in ErrorFieldFns THEN "error" ELSE "detail"

\* throw new Error(error.response?.data?.<field> || '<fallback>')
ThrownMessage(fn, body) ==
  OrElse(ResponseField(body, ErrorField(fn)), FallbackMessage(fn))

NoOutcome == [kind |-> "none"]

ApiFrame == UNCHANGED <<routeVars, dashVars, projVars, homeVars, authVars, emailVars, adminVars, hookVars, managerVars>>

InitApi ==
  /\ token = NoToken
  /\ apiInFlight = {}
  /\ apiOutcome = NoOutcome

\* login / logout / token refresh writes localStorage (AuthContext)
StoreToken(t) ==
  /\ token' = t
  /\ token' # token
  /\ UNCHANGED <<apiInFlight, apiOutcome>>
  /\ ApiFrame

\* a component calls fn: the function builds its headers and issues the request
ApiCall(fn) ==
  /\ Cardinality(apiInFlight) < MaxApiInFlight
  /\ apiInFlight' = apiInFlight \cup {[fn |-> fn, authorization |-> RequestAuthorization(fn, token)]}
  /\ UNCHANGED <<token, apiOutcome>>
  /\ ApiFrame

\* the request is answered 2xx: return response.data
ApiReturn(req) ==
  /\ req \in apiInFlight
  /\ apiInFlight' = apiInFlight \ {req}
  /\ apiOutcome' = [kind |-> "returned", fn |-> req.fn]
  /\ UNCHANGED token
  /\ ApiFrame

\* axios rejects (network error or non-2xx): the catch block throws a new Error
ApiThrow(req, body) ==
  /\ req \in apiInFlight
  /\ apiInFlight' = apiInFlight \ {req}
  /\ apiOutcome' = [kind |-> "thrown", fn |-> req.fn, body |-> body,
                    message |-> ThrownMessage(req.fn, body)]
  /\ UNCHANGED token
  /\ ApiFrame

NextApi ==
  \/ \E t \in {NoToken} \cup Tokens : StoreToken(t)
  \/ \E fn \in ApiFns : ApiCall(fn)
  \/ \E req \in apiInFlight : ApiReturn(req)
  \/ \E req \in apiInFlight, body \in ErrorBodies : ApiThrow(req, body)

(***************************************************************************)
(* App.js: ProtectedRoute, getDefaultRoute, AppContent                     *)
(***************************************************************************)

\* bound: entries of the browser history stack
MaxHistory == 2

NoUser == [present |-> FALSE, role |-> Absent]
Users == {[present |-> TRUE, role |-> r] : r \in {"admin", "user", "manager", Absent}}

\* the four routed paths and two paths only the "*" route matches
Paths == {"/auth", "/dashboard", "/", "/admin", "/manager", "/nowhere"}

Page(name) == [kind |-> "page", page |-> name, to |-> Absent]
NavigateTo(path) == [kind |-> "navigate", page |-> Absent, to |-> path]
Spinner == Page("Spinner")

\* user?.role
RoleOf(usr) == IF usr.present THEN usr.role ELSE Absent

\* the guard without its isAuthenticated check
ProtectedRoute_NoAuthCheck(children, adminOnly, loading, authed, usr) ==
  IF loading THEN Spinner
  ELSE IF adminOnly /\ RoleOf(usr) # "admin" THEN NavigateTo("/dashboard")
  ELSE children

\* the guard without its adminOnly check
ProtectedRoute_IgnoresAdminOnly(children, adminOnly, loading, authed, usr) ==
  IF loading THEN Spinner
  ELSE IF ~authed THEN NavigateTo("/auth")
  ELSE children

ProtectedRoute(children, adminOnly, loading, authed, usr) ==
  IF loading THEN Spinner
  ELSE IF ~authed THEN NavigateTo("/auth")
  ELSE IF adminOnly /\ RoleOf(usr) # "admin" THEN NavigateTo("/dashboard")
  ELSE children

getDefaultRoute(usr) == IF RoleOf(usr) = "admin" THEN "/" ELSE "/dashboard"

\* the element <Routes> picks for a path
RouteElement(path, loading, authed, usr) ==
  CASE path = "/auth" ->
         IF authed THEN NavigateTo(getDefaultRoute(usr)) ELSE Page("AuthPage")
    [] path = "/dashboard" -> ProtectedRoute(Page("UserDashboard"), FALSE, loading, authed, usr)
    [] path = "/" -> ProtectedRoute(Page("Home"), TRUE, loading, authed, usr)
    [] path = "/admin" -> ProtectedRoute(Page("Admin"), TRUE, loading, authed, usr)
    [] OTHER -> NavigateTo(IF authed THEN getDefaultRoute(usr) ELSE "/auth")

\* AppContent: the spinner while loading, else the routes
AppContent(path, loading, authed, usr) ==
  IF loading THEN Spinner ELSE RouteElement(path, loading, authed, usr)

\* where a requested path ends once every <Navigate replace> has been followed
RECURSIVE ResolveFrom(_, _, _, _, _)
ResolveFrom(path, fuel, loading, authed, usr) ==
  LET el == AppContent(path, loading, authed, usr) IN
  IF el.kind = "navigate" /\ fuel > 0
  THEN ResolveFrom(el.to, fuel - 1, loading, authed, usr)
  ELSE [path |-> path, element |-> el]

Resolve(path, loading, authed, usr) ==
  ResolveFrom(path, Cardinality(Paths), loading, authed, usr)

Location == history[Len(history)]

RouteFrame == UNCHANGED <<apiVars, dashVars, projVars, homeVars, authVars, emailVars, adminVars, hookVars, managerVars>>

InitRoutes ==
  /\ authLoading = TRUE
  /\ isAuthenticated = FALSE
  /\ user = NoUser
  /\ history = <<"/">>
  /\ rendered = AppContent("/", TRUE, FALSE, NoUser)

\* the AuthContext provider changes its value (token check done, login,
\* logout); AppContent and the guards re-render
AuthChange(loading, authed, usr) ==
  /\ <<loading, authed, usr>> # <<authLoading, isAuthenticated, user>>
  /\ authLoading' = loading
  /\ isAuthenticated' = authed
  /\ user' = usr
  /\ rendered' = AppContent(Location, loading, authed, usr)
  /\ UNCHANGED history
  /\ RouteFrame

\* the user requests a path (a link, the address bar)
RequestPath(path) ==
  /\ Len(history) < MaxHistory
  /\ history' = Append(history, path)
  /\ rendered' = AppContent(path, authLoading, isAuthenticated, user)
  /\ UNCHANGED <<authLoading, isAuthenticated, user>>
  /\ RouteFrame

\* the browser's back button
GoBack ==
  /\ Len(history) > 1
  /\ history' = SubSeq(history, 1, Len(history) - 1)
  /\ rendered' = AppContent(history'[Len(history')], authLoading, isAuthenticated, user)
  /\ UNCHANGED <<authLoading, isAuthenticated, user>>
  /\ RouteFrame

\* a rendered <Navigate to=... replace /> replaces the location
FollowNavigate ==
  /\ rendered.kind = "navigate"
  /\ history' = [history EXCEPT ![Len(history)] = rendered.to]
  /\ rendered' = AppContent(rendered.to, authLoading, isAuthenticated, user)
  /\ UNCHANGED <<authLoading, isAuthenticated, user>>
  /\ RouteFrame

NextRoutes ==
  \/ \E l \in BOOLEAN, a \in BOOLEAN, u \in Users \cup {NoUser} : AuthChange(l, a, u)
  \/ \E p \in Paths : RequestPath(p)
  \/ GoBack
  \/ FollowNavigate

(***************************************************************************)
(* UserDashboard.js: loadUserData, updateTaskStatus, the task buttons      *)
(***************************************************************************)

\* bound: tasks assigned to the user
NumTasks == 1
\* bound: updateTaskStatus requests in flight at once
MaxPuts == 2
\* bound: loadUserData calls running at once
MaxLoads == 1

TaskIds == 1..NumTasks
TaskStatuses == {"pending", "in_progress", "completed"}

\* useState([]) before any list has been loaded
EmptyList == <<>>

\* what the server answers GET /api/user/meetings with
ServerMeetings == "meetings of the user"

RemoveAt(seq, i) == SubSeq(seq, 1, i - 1) \o SubSeq(seq, i + 1, Len(seq))

DashFrame == UNCHANGED <<apiVars, routeVars, projVars, homeVars, authVars, emailVars, adminVars, hookVars, managerVars>>

\* mounted: useState initial values, and the effect has called loadUserData,
\* which awaits its first fetch; the server holds the tasks as it created them
\* (status TEXT DEFAULT 'pending')
InitDash ==
  /\ serverTasks = [t \in TaskIds |-> "pending"]
  /\ tasks = EmptyList
  /\ meetings = EmptyList
  /\ dashLoading = TRUE
  /\ dashError = ""
  /\ puts = <<>>
  /\ loads = <<[pc |-> "meetings", origin |-> "mount", snap |-> EmptyList]>>

\* the buttons a task card shows: none while the spinner replaces the page,
\* none for a completed task, Start only for a pending one, Complete otherwise
StartOffered_AnyOpenTask(t) ==
  /\ ~dashLoading
  /\ t \in DOMAIN tasks
  /\ tasks[t] # "completed"

StartOffered(t) ==
  /\ ~dashLoading
  /\ t \in DOMAIN tasks
  /\ tasks[t] # "completed"
  /\ tasks[t] = "pending"

CompleteOffered(t) ==
  /\ ~dashLoading
  /\ t \in DOMAIN tasks
  /\ tasks[t] # "completed"

\* updateTaskStatus(taskId, newStatus) up to its await fetch(PUT)
SendPut(t, newStatus) ==
  /\ Len(puts) < MaxPuts
  /\ puts' = Append(puts, [stage |-> "sent", task |-> t, status |-> newStatus])
  /\ UNCHANGED <<serverTasks, tasks, meetings, dashLoading, dashError, loads>>
  /\ DashFrame

PressStart(t) == StartOffered(t) /\ SendPut(t, "in_progress")

PressComplete(t) == CompleteOffered(t) /\ SendPut(t, "completed")

\* the server stores the status of a PUT and answers 2xx
ServerPut(i) ==
  /\ i \in DOMAIN puts
  /\ puts[i].stage = "sent"
  /\ serverTasks' = [serverTasks EXCEPT ![puts[i].task] = puts[i].status]
  /\ puts' = [puts EXCEPT ![i].stage = "ok"]
  /\ UNCHANGED <<tasks, meetings, dashLoading, dashError, loads>>
  /\ DashFrame

\* loadUserData up to its first await: setLoading(true), fetch the meetings
StartLoad ==
  /\ loads' = Append(loads, [pc |-> "meetings", origin |-> "update", snap |-> EmptyList])
  /\ dashLoading' = TRUE

\* updateTaskStatus after its await, response.ok: loadUserData()
PutOk_NoReload(i) ==
  /\ i \in DOMAIN puts
  /\ puts[i].stage = "ok"
  /\ puts' = RemoveAt(puts, i)
  /\ UNCHANGED <<serverTasks, tasks, meetings, dashError, loads, dashLoading>>
  /\ DashFrame

PutOk(i) ==
  /\ i \in DOMAIN puts
  /\ puts[i].stage = "ok"
  /\ Len(loads) < MaxLoads
  /\ puts' = RemoveAt(puts, i)
  /\ StartLoad
  /\ UNCHANGED <<serverTasks, tasks, meetings, dashError>>
  /\ DashFrame

\* updateTaskStatus after its await, a non-2xx answer or a rejected fetch:
\* setError('Failed to update task status') on either path
PutFailed(i) ==
  /\ i \in DOMAIN puts
  /\ puts[i].stage = "sent"
  /\ puts' = RemoveAt(puts, i)
  /\ dashError' = "Failed to update task status"
  /\ UNCHANGED <<serverTasks, tasks, meetings, dashLoading, loads>>
  /\ DashFrame

\* loadUserData: the meetings fetch is answered (ok, or a non-2xx answer that
\* is only logged); the tasks fetch is issued
MeetingsAnswered(i, ok) ==
  /\ i \in DOMAIN loads
  /\ loads[i].pc = "meetings"
  /\ meetings' = IF ok THEN ServerMeetings ELSE meetings
  /\ loads' = [loads EXCEPT ![i].pc = "tasks"]
  /\ UNCHANGED <<serverTasks, tasks, dashLoading, dashError, puts>>
  /\ DashFrame

\* loadUserData: a fetch rejects (network error): catch sets the error,
\* finally clears loading
FetchRejected(i) ==
  /\ i \in DOMAIN loads
  /\ loads[i].pc \in {"meetings", "tasks"}
  /\ dashError' = "Failed to load user data"
  /\ dashLoading' = FALSE
  /\ loads' = RemoveAt(loads, i)
  /\ UNCHANGED <<serverTasks, tasks, meetings, puts>>
  /\ DashFrame

\* the server answers GET /api/user/tasks with the list it holds
ServerGetTasks(i) ==
  /\ i \in DOMAIN loads
  /\ loads[i].pc = "tasks"
  /\ loads' = [loads EXCEPT ![i].pc = "tasks_ok", ![i].snap = serverTasks]
  /\ UNCHANGED <<serverTasks, tasks, meetings, dashLoading, dashError, puts>>
  /\ DashFrame

\* loadUserData: tasksResponse.ok: setTasks(tasksData.tasks); finally
TasksLoaded(i) ==
  /\ i \in DOMAIN loads
  /\ loads[i].pc = "tasks_ok"
  /\ tasks' = loads[i].snap
  /\ dashLoading' = FALSE
  /\ loads' = RemoveAt(loads, i)
  /\ UNCHANGED <<serverTasks, meetings, dashError, puts>>
  /\ DashFrame

\* loadUserData: the tasks fetch is answered non-2xx: console.error; finally
TasksNotOk(i) ==
  /\ i \in DOMAIN loads
  /\ loads[i].pc = "tasks"
  /\ dashLoading' = FALSE
  /\ loads' = RemoveAt(loads, i)
  /\ UNCHANGED <<serverTasks, tasks, meetings, dashError, puts>>
  /\ DashFrame

\* the Alert's onClose: setError('')
DismissError ==
  /\ ~dashLoading
  /\ dashError # ""
  /\ dashError' = ""
  /\ UNCHANGED <<serverTasks, tasks, meetings, dashLoading, puts, loads>>
  /\ DashFrame

NextDash ==
  \/ \E t \in TaskIds : PressStart(t)
  \/ \E t \in TaskIds : PressComplete(t)
  \/ \E i \in 1..MaxPuts : ServerPut(i)
  \/ \E i \in 1..MaxPuts : PutOk(i)
  \/ \E i \in 1..MaxPuts : PutFailed(i)
  \/ \E i \in 1..MaxLoads : MeetingsAnswered(i, TRUE)
  \/ \E i \in 1..MaxLoads : MeetingsAnswered(i, FALSE)
  \/ \E i \in 1..MaxLoads : FetchRejected(i)
  \/ \E i \in 1..MaxLoads : ServerGetTasks(i)
  \/ \E i \in 1..MaxLoads : TasksLoaded(i)
  \/ \E i \in 1..MaxLoads : TasksNotOk(i)
  \/ DismissError

(***************************************************************************)
(* Admin.js: ProjectForm and the project handlers of Admin                 *)
(* (the form's description and date fields go through the same             *)
(* handleChange as name and status and are left out, as are the bodies of  *)
(* the details and link-meeting modals)                                    *)
(***************************************************************************)

\* bound: projects the server can hold
MaxProjects == 1
\* bound: project requests of Admin in flight at once
MaxProjReqs == 1

ProjectIds == 1..MaxProjects

\* the <option> values of the form's status select
ProjectStatuses == {"active", "completed", "on_hold", "cancelled"}

\* what the name input can hold
ProjectNames == {"", "Project"}

NoProject == [id |-> 0, name |-> Absent, status |-> Absent]

\* useState({ name: '', ..., status: 'active', ... })
DefaultFormData == [name |-> "", status |-> "active"]

\* the form's effect without the copy of the project's status
ProjectFormData_DefaultStatus(project) ==
  IF project # NoProject
  THEN [name |-> OrElse(project.name, ""), status |-> "active"]
  ELSE DefaultFormData

\* ProjectForm once mounted: the initial formData, then the effect on
\* [project] that copies the project's fields when a project is given
ProjectFormData(project) ==
  IF project # NoProject
  THEN [name |-> OrElse(project.name, ""), status |-> OrElse(project.status, "active")]
  ELSE DefaultFormData

\* handleChange: setFormData(prev => ({ ...prev, [e.target.name]: e.target.value }))
handleChange(prev, name, value) == [prev EXCEPT ![name] = value]

\* the values an input of the form can send to handleChange
InputValues(name) == IF name = "status" THEN ProjectStatuses ELSE ProjectNames

\* the list GET /api/admin/projects answers with
ProjectList(held) == {held[id] : id \in {i \in ProjectIds : held[i] # NoProject}}

ProjFrame == UNCHANGED <<apiVars, routeVars, dashVars, homeVars, authVars, emailVars, adminVars, hookVars, managerVars>>

\* Admin mounted: its effect has called loadProjects()
InitProj ==
  /\ serverProjects = [id \in ProjectIds |-> NoProject]
  /\ projects = {}
  /\ showProjectModal = FALSE
  /\ selectedProject = NoProject
  /\ formData = DefaultFormData
  /\ showProjectDetailsModal = FALSE
  /\ showLinkMeetingModal = FALSE
  /\ projReqs = <<[kind |-> "list", stage |-> "sent", project |-> NoProject,
                   payload |-> DefaultFormData, answer |-> {}]>>
  /\ projToast = ""

\* a call of an ApiContext function that has not resumed its handler yet:
\* the project it was called for, the payload, and the list a GET answers
ProjRequest(kind, project, payload) ==
  [kind |-> kind, stage |-> "sent", project |-> project, payload |-> payload, answer |-> {}]

\* no modal covers the page
NoModal == ~showProjectModal /\ ~showProjectDetailsModal /\ ~showLinkMeetingModal

\* the project modal is shown and no other modal covers it
FormOnTop == showProjectModal /\ ~showProjectDetailsModal /\ ~showLinkMeetingModal

\* the "Create Project" button: setSelectedProject(null); setShowProjectModal(true)
OpenCreateProject ==
  /\ NoModal
  /\ selectedProject' = NoProject
  /\ showProjectModal' = TRUE
  /\ UNCHANGED <<showProjectDetailsModal, showLinkMeetingModal>>
  /\ formData' = ProjectFormData(NoProject)
  /\ UNCHANGED <<serverProjects, projects, projReqs, projToast>>
  /\ ProjFrame

\* a row's edit button: setSelectedProject(project); setShowProjectModal(true)
OpenEditProject(project) ==
  /\ NoModal
  /\ project \in projects
  /\ selectedProject' = project
  /\ showProjectModal' = TRUE
  /\ UNCHANGED <<showProjectDetailsModal, showLinkMeetingModal>>
  /\ formData' = ProjectFormData(project)
  /\ UNCHANGED <<serverProjects, projects, projReqs, projToast>>
  /\ ProjFrame

\* the user edits an input of the form
ChangeProjectField(name, value) ==
  /\ FormOnTop
  /\ formData[name] # value
  /\ formData' = handleChange(formData, name, value)
  /\ UNCHANGED <<serverProjects, projects, showProjectModal, showProjectDetailsModal, showLinkMeetingModal, selectedProject, projReqs, projToast>>
  /\ ProjFrame

\* the form's submit (the name input is required): handleSubmit calls
\* onSubmit(formData), which is handleUpdateProject(selectedProject.id, data)
\* or handleCreateProject(data), up to the await
SubmitProject ==
  /\ FormOnTop
  /\ formData.name # ""
  /\ Len(projReqs) < MaxProjReqs
  /\ projReqs' = Append(projReqs,
                   IF selectedProject # NoProject
                   THEN ProjRequest("update", selectedProject, formData)
                   ELSE ProjRequest("create", NoProject, formData))
  /\ UNCHANGED <<serverProjects, projects, showProjectModal, showProjectDetailsModal, showLinkMeetingModal, selectedProject, formData, projToast>>
  /\ ProjFrame

\* Cancel, or the modal's onHide: the form unmounts with the modal
CloseProjectModal ==
  /\ FormOnTop
  /\ showProjectModal' = FALSE
  /\ UNCHANGED <<showProjectDetailsModal, showLinkMeetingModal>>
  /\ formData' = DefaultFormData
  /\ UNCHANGED <<serverProjects, projects, selectedProject, projReqs, projToast>>
  /\ ProjFrame

\* a row's delete button, confirmed: handleDeleteProject up to the await
DeleteProject(project) ==
  /\ NoModal
  /\ project \in projects
  /\ Len(projReqs) < MaxProjReqs
  /\ projReqs' = Append(projReqs, ProjRequest("delete", project, DefaultFormData))
  /\ UNCHANGED <<serverProjects, projects, showProjectModal, showProjectDetailsModal, showLinkMeetingModal, selectedProject, formData, projToast>>
  /\ ProjFrame

\* a row's details button: handleViewProjectDetails(project) up to the await
ViewProjectDetails(project) ==
  /\ NoModal
  /\ project \in projects
  /\ Len(projReqs) < MaxProjReqs
  /\ projReqs' = Append(projReqs, ProjRequest("details", project, DefaultFormData))
  /\ UNCHANGED <<serverProjects, projects, showProjectModal, showProjectDetailsModal,
                 showLinkMeetingModal, selectedProject, formData, projToast>>
  /\ ProjFrame

\* handleShowLinkMeeting(project) up to the await: from a row's link button,
\* or from the details modal for selectedProject
ShowLinkMeeting(project) ==
  /\ \/ NoModal /\ project \in projects
     \/ showProjectDetailsModal /\ ~showLinkMeetingModal /\ project = selectedProject
  /\ project # NoProject
  /\ Len(projReqs) < MaxProjReqs
  /\ projReqs' = Append(projReqs, ProjRequest("link", project, DefaultFormData))
  /\ UNCHANGED <<serverProjects, projects, showProjectModal, showProjectDetailsModal,
                 showLinkMeetingModal, selectedProject, formData, projToast>>
  /\ ProjFrame

\* the details modal's Close or onHide
CloseProjectDetailsModal ==
  /\ showProjectDetailsModal
  /\ showProjectDetailsModal' = FALSE
  /\ UNCHANGED <<serverProjects, projects, showProjectModal, showLinkMeetingModal,
                 selectedProject, formData, projReqs, projToast>>
  /\ ProjFrame

\* the link-meeting modal's Cancel or onHide
CloseLinkMeetingModal ==
  /\ showLinkMeetingModal
  /\ showLinkMeetingModal' = FALSE
  /\ UNCHANGED <<serverProjects, projects, showProjectModal, showProjectDetailsModal,
                 selectedProject, formData, projReqs, projToast>>
  /\ ProjFrame

FreeProjectIds == {id \in ProjectIds : serverProjects[id] = NoProject}

\* the server carries out a request and answers 2xx
ServerProject(i) ==
  /\ i \in DOMAIN projReqs
  /\ projReqs[i].stage = "sent"
  /\ LET r == projReqs[i] IN
     /\ r.kind = "create" => FreeProjectIds # {}
     /\ r.kind \in {"update", "delete", "details"} => serverProjects[r.project.id] # NoProject
     /\ serverProjects' =
          CASE r.kind = "create" ->
                 LET id == CHOOSE f \in FreeProjectIds : \A g \in FreeProjectIds : f <= g IN
                 [serverProjects EXCEPT ![id] = [id |-> id, name |-> r.payload.name,
                                                 status |-> r.payload.status]]
            [] r.kind = "update" ->
                 [serverProjects EXCEPT ![r.project.id].name = r.payload.name,
                                        ![r.project.id].status = r.payload.status]
            [] r.kind = "delete" -> [serverProjects EXCEPT ![r.project.id] = NoProject]
            [] OTHER -> serverProjects
     /\ projReqs' = [projReqs EXCEPT ![i].stage = "ok",
                                     ![i].answer =
                                        CASE r.kind = "list" -> ProjectList(serverProjects)
                                          [] r.kind = "details" -> {serverProjects[r.project.id]}
                                          [] OTHER -> {}]
  /\ UNCHANGED <<projects, showProjectModal, showProjectDetailsModal, showLinkMeetingModal, selectedProject, formData, projToast>>
  /\ ProjFrame

\* loadProjects after its await: setProjects(data || [])
ProjectsLoaded(i) ==
  /\ i \in DOMAIN projReqs
  /\ projReqs[i].stage = "ok" /\ projReqs[i].kind = "list"
  /\ projects' = projReqs[i].answer
  /\ projReqs' = RemoveAt(projReqs, i)
  /\ UNCHANGED <<serverProjects, showProjectModal, showProjectDetailsModal, showLinkMeetingModal, selectedProject, formData, projToast>>
  /\ ProjFrame

\* handleCreateProject / handleUpdateProject after the await: toast.success,
\* loadProjects(), setShowProjectModal(false)
ProjectSaved(i) ==
  /\ i \in DOMAIN projReqs
  /\ projReqs[i].stage = "ok" /\ projReqs[i].kind \in {"create", "update"}
  /\ projToast' = IF projReqs[i].kind = "create" THEN "Project created successfully"
                  ELSE "Project updated successfully"
  /\ projReqs' = Append(RemoveAt(projReqs, i), ProjRequest("list", NoProject, DefaultFormData))
  /\ showProjectModal' = FALSE
  /\ UNCHANGED <<showProjectDetailsModal, showLinkMeetingModal>>
  /\ formData' = DefaultFormData
  /\ UNCHANGED <<serverProjects, projects, selectedProject>>
  /\ ProjFrame

\* handleDeleteProject after the await: toast.success, loadProjects()
ProjectDeleted(i) ==
  /\ i \in DOMAIN projReqs
  /\ projReqs[i].stage = "ok" /\ projReqs[i].kind = "delete"
  /\ projToast' = "Project deleted successfully"
  /\ projReqs' = Append(RemoveAt(projReqs, i), ProjRequest("list", NoProject, DefaultFormData))
  /\ UNCHANGED <<serverProjects, projects, showProjectModal, showProjectDetailsModal, showLinkMeetingModal, selectedProject, formData>>
  /\ ProjFrame

\* ProjectForm's effect on [project]: a mounted form copies the fields of the
\* project its prop has become
FormAfterProject(project) == IF showProjectModal THEN ProjectFormData(project) ELSE formData

\* handleViewProjectDetails after the await: setSelectedProject(data.project),
\* setShowProjectDetailsModal(true)
ProjectDetailsLoaded(i) ==
  /\ i \in DOMAIN projReqs
  /\ projReqs[i].stage = "ok" /\ projReqs[i].kind = "details"
  /\ \E project \in projReqs[i].answer :
       /\ selectedProject' = project
       /\ formData' = FormAfterProject(project)
  /\ showProjectDetailsModal' = TRUE
  /\ projReqs' = RemoveAt(projReqs, i)
  /\ UNCHANGED <<serverProjects, projects, showProjectModal, showLinkMeetingModal, projToast>>
  /\ ProjFrame

\* handleShowLinkMeeting after the await: setSelectedProject(project),
\* setShowLinkMeetingModal(true); the effect does not run when the prop is
\* the very object it was
LinkMeetingLoaded(i) ==
  /\ i \in DOMAIN projReqs
  /\ projReqs[i].stage = "ok" /\ projReqs[i].kind = "link"
  /\ selectedProject' = projReqs[i].project
  /\ \/ formData' = FormAfterProject(projReqs[i].project)
     \/ projReqs[i].project = selectedProject /\ formData' = formData
  /\ showLinkMeetingModal' = TRUE
  /\ projReqs' = RemoveAt(projReqs, i)
  /\ UNCHANGED <<serverProjects, projects, showProjectModal, showProjectDetailsModal, projToast>>
  /\ ProjFrame

\* the ApiContext call throws: the handler's catch shows its toast
ProjectRequestFailed(i) ==
  /\ i \in DOMAIN projReqs
  /\ projReqs[i].stage = "sent"
  /\ projToast' = CASE projReqs[i].kind = "list" -> "Failed to load projects"
                    [] projReqs[i].kind = "create" -> "Failed to create project"
                    [] projReqs[i].kind = "update" -> "Failed to update project"
                    [] projReqs[i].kind = "delete" -> "Failed to delete project"
                    [] projReqs[i].kind = "details" -> "Failed to load project details"
                    [] projReqs[i].kind = "link" -> "Failed to load unlinked meetings"
  /\ projReqs' = RemoveAt(projReqs, i)
  /\ UNCHANGED <<serverProjects, projects, showProjectModal, showProjectDetailsModal, showLinkMeetingModal, selectedProject, formData>>
  /\ ProjFrame

\* the 30-second interval of Admin's effect calls loadProjects()
RefreshProjects ==
  /\ Len(projReqs) < MaxProjReqs
  /\ projReqs' = Append(projReqs, ProjRequest("list", NoProject, DefaultFormData))
  /\ UNCHANGED <<serverProjects, projects, showProjectModal, showProjectDetailsModal, showLinkMeetingModal, selectedProject, formData, projToast>>
  /\ ProjFrame

NextProj ==
  \/ OpenCreateProject
  \/ \E project \in projects : OpenEditProject(project)
  \/ \E name \in {"name", "status"} : \E value \in InputValues(name) :
       ChangeProjectField(name, value)
  \/ SubmitProject
  \/ CloseProjectModal
  \/ \E project \in projects : DeleteProject(project)
  \/ \E project \in projects : ViewProjectDetails(project)
  \/ \E project \in projects \cup {selectedProject} : ShowLinkMeeting(project)
  \/ CloseProjectDetailsModal
  \/ CloseLinkMeetingModal
  \/ \E i \in 1..MaxProjReqs : ProjectDetailsLoaded(i)
  \/ \E i \in 1..MaxProjReqs : LinkMeetingLoaded(i)
  \/ \E i \in 1..MaxProjReqs : ServerProject(i)
  \/ \E i \in 1..MaxProjReqs : ProjectsLoaded(i)
  \/ \E i \in 1..MaxProjReqs : ProjectSaved(i)
  \/ \E i \in 1..MaxProjReqs : ProjectDeleted(i)
  \/ \E i \in 1..MaxProjReqs : ProjectRequestFailed(i)
  \/ RefreshProjects

(***************************************************************************)
(* TranscriptInput.js and Home.js                                          *)
(***************************************************************************)

\* bound: characters of a typed transcript
MaxTextLen == 2
\* bound: FileReaders reading at once
MaxReaders == 1
\* bound: analyze requests in flight at once
MaxAnalyze == 2

\* a text is a sequence of characters; only whitespace or not matters to trim()
Chars == {" ", "a"}

RECURSIVE TextsUpTo(_)
TextsUpTo(n) ==
  IF n = 0 THEN {<<>>}
  ELSE TextsUpTo(n - 1) \cup
       {Append(t, c) : t \in {u \in TextsUpTo(n - 1) : Len(u) = n - 1}, c \in Chars}

Texts == TextsUpTo(MaxTextLen)

\* String.prototype.trim(): whitespace removed from both ends
RECURSIVE TrimStart(_)
TrimStart(t) == IF t # <<>> /\ Head(t) = " " THEN TrimStart(Tail(t)) ELSE t

RECURSIVE TrimEnd(_)
TrimEnd(t) ==
  IF t # <<>> /\ t[Len(t)] = " " THEN TrimEnd(SubSeq(t, 1, Len(t) - 1)) ELSE t

\* trim() that removes nothing
Trim_Identity(t) == t

Trim(t) == TrimEnd(TrimStart(t))

\* the sample transcript of loadSampleData
SampleTranscript == <<"a", " ", "a">>

\* 5 * 1024 * 1024
FiveMB == 5 * 1024 * 1024

NoFile == [type |-> Absent, size |-> 0, content |-> <<>>]

\* the files the user can pick: a type, a size in bytes around the limit, and
\* the text readAsText gives (empty exactly for an empty file)
FileTypes == {"text/plain", "application/pdf"}
Files ==
  {[type |-> ty, size |-> 0, content |-> <<>>] : ty \in FileTypes} \cup
  {[type |-> ty, size |-> sz, content |-> c] :
     ty \in FileTypes, sz \in {FiveMB - 1, FiveMB, FiveMB + 1}, c \in {<<" ">>, <<"a">>}}

NoResults == "null"
NoError == "null"

HomeFrame == UNCHANGED <<apiVars, routeVars, dashVars, projVars, authVars, emailVars, adminVars, hookVars, managerVars>>

InitHome ==
  /\ transcript = <<>>
  /\ file = NoFile
  /\ readers = <<>>
  /\ isLoading = FALSE
  /\ results = NoResults
  /\ homeError = NoError
  /\ analyzeReqs = <<>>
  /\ homeToast = ""

\* the textarea's onChange: setTranscript(e.target.value)
TypeTranscript(text) ==
  /\ ~isLoading
  /\ text # transcript
  /\ transcript' = text
  /\ UNCHANGED <<file, readers, isLoading, results, homeError, analyzeReqs, homeToast>>
  /\ HomeFrame

\* selectedFile.size > 5 * 1024 * 1024
TooLarge(selectedFile) == selectedFile.size > FiveMB

\* handleFileUpload with a file selected
handleFileUpload(selectedFile) ==
  /\ ~isLoading
  /\ IF selectedFile.type # "text/plain"
     THEN /\ homeToast' = "Please select a .txt file"
          /\ UNCHANGED readers
     ELSE IF TooLarge(selectedFile)
     THEN /\ homeToast' = "File size must be less than 5MB"
          /\ UNCHANGED readers
     ELSE /\ Len(readers) < MaxReaders
          /\ readers' = Append(readers, selectedFile)
          /\ UNCHANGED homeToast
  /\ UNCHANGED <<transcript, file, isLoading, results, homeError, analyzeReqs>>
  /\ HomeFrame

\* reader.onload: setTranscript(e.target.result); setFile(selectedFile); toast
ReaderOnload(i) ==
  /\ i \in DOMAIN readers
  /\ transcript' = readers[i].content
  /\ file' = readers[i]
  /\ homeToast' = "File loaded successfully"
  /\ readers' = RemoveAt(readers, i)
  /\ UNCHANGED <<isLoading, results, homeError, analyzeReqs>>
  /\ HomeFrame

\* loadSampleData
loadSampleData ==
  /\ ~isLoading
  /\ transcript' = SampleTranscript
  /\ file' = NoFile
  /\ homeToast' = "Sample meeting transcript loaded"
  /\ UNCHANGED <<readers, isLoading, results, homeError, analyzeReqs>>
  /\ HomeFrame

\* the submit button taken as enabled while an analysis is loading
SubmitEnabled_WhileLoading == Trim(transcript) # <<>>

\* the submit button: disabled={isLoading || !transcript.trim()}
SubmitEnabled == ~isLoading /\ Trim(transcript) # <<>>

\* handleAnalyze taken as leaving the earlier results on display
handleAnalyze_KeepsResults(text) ==
  /\ Len(analyzeReqs) < MaxAnalyze
  /\ isLoading' = TRUE
  /\ homeError' = NoError
  /\ analyzeReqs' = Append(analyzeReqs, text)
  /\ UNCHANGED <<results, homeToast>>

\* Home.handleAnalyze up to its await
handleAnalyze(text) ==
  /\ Len(analyzeReqs) < MaxAnalyze
  /\ isLoading' = TRUE
  /\ homeError' = NoError
  /\ results' = NoResults
  /\ analyzeReqs' = Append(analyzeReqs, text)
  /\ UNCHANGED homeToast

\* handleSubmit: the toast for a blank transcript, else onAnalyze(transcript)
handleSubmit ==
  /\ SubmitEnabled
  /\ IF Trim(transcript) = <<>>
     THEN /\ homeToast' = "Please enter or upload a meeting transcript"
          /\ UNCHANGED <<isLoading, results, homeError, analyzeReqs>>
     ELSE handleAnalyze(transcript)
  /\ UNCHANGED <<transcript, file, readers>>
  /\ HomeFrame

\* what analyzeTranscriptAjax gives handleAnalyze: data with success, data
\* without (with or without an error text), or a thrown Error
AnalyzeAnswers ==
  {[thrown |-> FALSE, success |-> TRUE, error |-> Absent],
   [thrown |-> FALSE, success |-> FALSE, error |-> Absent],
   [thrown |-> FALSE, success |-> FALSE, error |-> "server error"],
   [thrown |-> TRUE, success |-> FALSE, error |-> "server error"],
   [thrown |-> TRUE, success |-> FALSE, error |-> "Failed to analyze transcript"]}

\* handleAnalyze after its await: the success branch, or the catch; finally
AnalyzeAnswered(i, answer) ==
  /\ i \in DOMAIN analyzeReqs
  /\ analyzeReqs' = RemoveAt(analyzeReqs, i)
  /\ IF ~answer.thrown /\ answer.success
     THEN /\ results' = "analysis"
          /\ homeToast' = "Meeting transcript analyzed successfully!"
          /\ UNCHANGED homeError
     ELSE LET message == OrElse(answer.error, "Failed to analyze transcript") IN
          /\ homeError' = message
          /\ homeToast' = message
          /\ UNCHANGED results
  /\ isLoading' = FALSE
  /\ UNCHANGED <<transcript, file, readers>>
  /\ HomeFrame

\* the Alert's onClose: setError(null)
DismissHomeError ==
  /\ homeError # NoError
  /\ homeError' = NoError
  /\ UNCHANGED <<transcript, file, readers, isLoading, results, analyzeReqs, homeToast>>
  /\ HomeFrame

NextHome ==
  \/ \E text \in Texts : TypeTranscript(text)
  \/ \E selectedFile \in Files : handleFileUpload(selectedFile)
  \/ \E i \in 1..MaxReaders : ReaderOnload(i)
  \/ loadSampleData
  \/ handleSubmit
  \/ \E i \in 1..MaxAnalyze : \E answer \in AnalyzeAnswers : AnalyzeAnswered(i, answer)
  \/ DismissHomeError

(***************************************************************************)
(* AuthPage (ManagerPage.js 472-694)                                       *)
(* (full_name and role go through the same handleChange and are left out;  *)
(* AuthContext is not part of the sources: login and register are calls    *)
(* that answer { success, error }, and the submit button, disabled only by *)
(* the context's loading, is taken as enabled)                             *)
(***************************************************************************)

\* bound: login / register calls in flight at once
MaxAuthReqs == 1

\* formData.password.length < 6
MinPasswordLength == 6

\* a string of n characters c
RECURSIVE Repeat(_, _)
Repeat(c, n) == IF n = 0 THEN <<>> ELSE Append(Repeat(c, n - 1), c)

\* what the password inputs can hold: lengths around the minimum
Passwords ==
  {<<>>, Repeat("a", MinPasswordLength - 1), Repeat("a", MinPasswordLength),
   Repeat("b", MinPasswordLength), Repeat("a", MinPasswordLength + 1)}

\* what an input of the form can hold (every text a sequence of characters)
AuthInputValues(name) ==
  CASE name = "username" -> {<<>>, <<"u">>}
    [] name = "email" -> {<<>>, <<"e">>}
    [] name \in {"password", "confirmPassword"} -> Passwords

AuthFieldNames == {"username", "email", "password", "confirmPassword"}

\* useState({ username: '', email: '', password: '', confirmPassword: '', ... })
EmptyAuthForm == [username |-> <<>>, email |-> <<>>, password |-> <<>>, confirmPassword |-> <<>>]

\* the error texts login / register answer with
AuthErrors == {"Invalid credentials", "Registration failed"}

AuthFrame == UNCHANGED <<apiVars, routeVars, dashVars, projVars, homeVars, emailVars, adminVars, hookVars, managerVars>>

InitAuth ==
  /\ isLogin = TRUE
  /\ authForm = EmptyAuthForm
  /\ localError = ""
  /\ authReqs = <<>>

\* handleChange: setFormData({ ...formData, [e.target.name]: e.target.value })
AuthHandleChange(name, value) ==
  /\ name \in (IF isLogin THEN {"username", "password"} ELSE AuthFieldNames)
  /\ authForm[name] # value
  /\ authForm' = [authForm EXCEPT ![name] = value]
  /\ UNCHANGED <<isLogin, localError, authReqs>>
  /\ AuthFrame

\* the Login / Register pills: setIsLogin(true), setIsLogin(false)
SetIsLogin(mode) ==
  /\ isLogin # mode
  /\ isLogin' = mode
  /\ UNCHANGED <<authForm, localError, authReqs>>
  /\ AuthFrame

\* the form's required inputs, as rendered in the current mode, are filled
RequiredFilled ==
  \A name \in (IF isLogin THEN {"username", "password"} ELSE AuthFieldNames) :
    authForm[name] # <<>>

\* the length test of handleSubmit left out
PasswordTooShort_Never(password) == FALSE

\* formData.password.length < 6
PasswordTooShort(password) == Len(password) < MinPasswordLength

\* formData.password !== formData.confirmPassword
PasswordsDiffer(form) == form.password # form.confirmPassword

\* handleSubmit up to its await: the registration validation, then login(...)
\* or register(...)
AuthHandleSubmit ==
  /\ RequiredFilled
  /\ IF ~isLogin /\ PasswordsDiffer(authForm)
     THEN /\ localError' = "Passwords do not match"
          /\ UNCHANGED authReqs
     ELSE IF ~isLogin /\ PasswordTooShort(authForm.password)
     THEN /\ localError' = "Password must be at least 6 characters long"
          /\ UNCHANGED authReqs
     ELSE /\ Len(authReqs) < MaxAuthReqs
          /\ localError' = ""
          /\ authReqs' = Append(authReqs,
               IF isLogin
               THEN [kind |-> "login", username |-> authForm.username,
                     email |-> <<>>, password |-> authForm.password]
               ELSE [kind |-> "register", username |-> authForm.username,
                     email |-> authForm.email, password |-> authForm.password])
  /\ UNCHANGED <<isLogin, authForm>>
  /\ AuthFrame

\* handleSubmit after its await: if (!result.success) setLocalError(result.error)
AuthAnswered(i, success, error) ==
  /\ i \in DOMAIN authReqs
  /\ authReqs' = RemoveAt(authReqs, i)
  /\ localError' = IF success THEN localError ELSE error
  /\ UNCHANGED <<isLogin, authForm>>
  /\ AuthFrame

NextAuth ==
  \/ \E name \in AuthFieldNames : \E value \in AuthInputValues(name) :
       AuthHandleChange(name, value)
  \/ \E mode \in BOOLEAN : SetIsLogin(mode)
  \/ AuthHandleSubmit
  \/ \E i \in 1..MaxAuthReqs : AuthAnswered(i, TRUE, "")
  \/ \E i \in 1..MaxAuthReqs : \E error \in AuthErrors : AuthAnswered(i, FALSE, error)

(***************************************************************************)
(* EmailGeneration (part_003 1-540), mounted with the results of an        *)
(* analysis: two participants, each with a personalized email              *)
(* (meeting_id and participant_tasks of the payload are left out)          *)
(***************************************************************************)

\* bound: changes the user makes to the inputs of the email form
MaxEdits == 1

\* results.participants: one with an email address, one without
ParticipantNames == {"Ann Lee", "Bob Ray"}
ParticipantEmail(name) == IF name = "Ann Lee" THEN "ann@corp.com" ELSE Absent

\* `${participant.name.split(' ')[0].toLowerCase()}@company.com`
DefaultAddress(name) == IF name = "Ann Lee" THEN "ann@company.com" ELSE "bob@company.com"

NoEmail ==
  [subject |-> Absent, content |-> Absent, recipient_email |-> Absent, recipient_name |-> Absent]

\* results.personalized_emails[name]: subject and content only
OriginalEmail(name) ==
  IF name = "Ann Lee"
  THEN [subject |-> "Notes for Ann", content |-> "Hello Ann",
        recipient_email |-> Absent, recipient_name |-> Absent]
  ELSE [subject |-> "Notes for Bob", content |-> "Hello Bob",
        recipient_email |-> Absent, recipient_name |-> Absent]

\* useState({ subject: '', content: '', recipient_email: '', recipient_name: '' })
EmptyEmailData ==
  [subject |-> "", content |-> "", recipient_email |-> "", recipient_name |-> ""]

EmailFields == {"subject", "content", "recipient_email", "recipient_name"}

\* what the user can put into an input of the form
EmailInputValues == {"", "edited"}

\* the payload tracking flag taken as always set
TrackingOfPayload_Always(tracking) == TRUE

\* tracking_enabled: trackingEnabled
TrackingOfPayload(tracking) == tracking

\* the emailPayload given to sendEmail
EmailPayload(recipient_email, recipient_name, subject, content, tracking) ==
  [recipient_email |-> recipient_email, recipient_name |-> recipient_name,
   email_subject |-> subject, email_content |-> content,
   tracking_enabled |-> TrackingOfPayload(tracking)]

NoPayload ==
  [recipient_email |-> Absent, recipient_name |-> Absent, email_subject |-> Absent,
   email_content |-> Absent, tracking_enabled |-> FALSE]

\* no loop of handleBulkSendEmails is running
NoBulk == [running |-> FALSE, selected |-> {}, todo |-> <<>>, successCount |-> 0, errorCount |-> 0]

\* the orders in which for...of can go through a Set of names
Orders(names) ==
  {order \in [1..Cardinality(names) -> names] :
     \A i, j \in 1..Cardinality(names) : order[i] = order[j] => i = j}

\* what sendEmail gives its caller: data with success, data without, or a throw
SendAnswers == {"success", "failure", "thrown"}

\* the saved edits taken as never used
EmailFor_Original(edited, name) == OriginalEmail(name)

\* editedEmail || originalEmail
EmailFor(edited, name) == IF edited[name] # NoEmail THEN edited[name] ELSE OriginalEmail(name)

\* editedEmail?.recipient_email || participant.email || `...@company.com`
RecipientEmailFor(edited, name) ==
  OrElse(edited[name].recipient_email, OrElse(ParticipantEmail(name), DefaultAddress(name)))

\* editedEmail?.recipient_name || participant.name
RecipientNameFor(edited, name) == OrElse(edited[name].recipient_name, name)

EmailFrame == UNCHANGED <<apiVars, routeVars, dashVars, projVars, homeVars, authVars, adminVars, hookVars, managerVars>>

InitEmail ==
  /\ selectedParticipant = ""
  /\ selectedParticipants = {}
  /\ currentEmail = NoEmail
  /\ editedEmails = [name \in ParticipantNames |-> NoEmail]
  /\ isEditing = FALSE
  /\ emailData = EmptyEmailData
  /\ trackingEnabled = TRUE
  /\ isSending = FALSE
  /\ isBulkSending = FALSE
  /\ singleSend = NoPayload
  /\ bulkSend = NoBulk
  /\ emailToast = ""
  /\ edits = 0

\* the emailData handleParticipantSelect sets for a participant
EmailDataFor(edited, name) ==
  [subject |-> EmailFor(edited, name).subject,
   content |-> EmailFor(edited, name).content,
   recipient_email |-> RecipientEmailFor(edited, name),
   recipient_name |-> RecipientNameFor(edited, name)]

\* handleParticipantSelect(name)
handleParticipantSelect(name) ==
  /\ selectedParticipant' = name
  /\ currentEmail' = EmailFor(editedEmails, name)
  /\ emailData' = EmailDataFor(editedEmails, name)
  /\ isEditing' = FALSE
  /\ emailToast' = ""
  /\ UNCHANGED <<selectedParticipants, editedEmails, trackingEnabled, isSending,
                 isBulkSending, singleSend, bulkSend, edits>>
  /\ EmailFrame

\* handleParticipantToggle(name)
handleParticipantToggle(name) ==
  /\ selectedParticipants' = IF name \in selectedParticipants
                             THEN selectedParticipants \ {name}
                             ELSE selectedParticipants \cup {name}
  /\ emailToast' = ""
  /\ UNCHANGED <<selectedParticipant, currentEmail, editedEmails, isEditing, emailData,
                 trackingEnabled, isSending, isBulkSending, singleSend, bulkSend, edits>>
  /\ EmailFrame

\* handleSelectAll
handleSelectAll ==
  /\ selectedParticipants' = IF Cardinality(selectedParticipants) = Cardinality(ParticipantNames)
                             THEN {} ELSE ParticipantNames
  /\ emailToast' = ""
  /\ UNCHANGED <<selectedParticipant, currentEmail, editedEmails, isEditing, emailData,
                 trackingEnabled, isSending, isBulkSending, singleSend, bulkSend, edits>>
  /\ EmailFrame

\* handleEdit (the Edit button shows with an email on display, not editing)
handleEdit ==
  /\ currentEmail # NoEmail /\ ~isEditing
  /\ isEditing' = TRUE
  /\ emailToast' = ""
  /\ UNCHANGED <<selectedParticipant, selectedParticipants, currentEmail, editedEmails,
                 emailData, trackingEnabled, isSending, isBulkSending, singleSend,
                 bulkSend, edits>>
  /\ EmailFrame

\* an input's onChange: setEmailData({...emailData, [field]: e.target.value})
ChangeEmailField(field, value) ==
  /\ currentEmail # NoEmail /\ isEditing
  /\ edits < MaxEdits
  /\ emailData[field] # value
  /\ emailData' = [emailData EXCEPT ![field] = value]
  /\ edits' = edits + 1
  /\ emailToast' = ""
  /\ UNCHANGED <<selectedParticipant, selectedParticipants, currentEmail, editedEmails,
                 isEditing, trackingEnabled, isSending, isBulkSending, singleSend,
                 bulkSend>>
  /\ EmailFrame

\* handleSave
handleSave ==
  /\ currentEmail # NoEmail /\ isEditing
  /\ isEditing' = FALSE
  /\ LET updatedEmail == [subject |-> emailData.subject, content |-> emailData.content,
                          recipient_email |-> emailData.recipient_email,
                          recipient_name |-> emailData.recipient_name] IN
     /\ editedEmails' = [editedEmails EXCEPT ![selectedParticipant] = updatedEmail]
     /\ currentEmail' = updatedEmail
  /\ emailToast' = "Email updated successfully"
  /\ UNCHANGED <<selectedParticipant, selectedParticipants, emailData, trackingEnabled,
                 isSending, isBulkSending, singleSend, bulkSend, edits>>
  /\ EmailFrame

\* handleCancel
handleCancel ==
  /\ currentEmail # NoEmail /\ isEditing
  /\ isEditing' = FALSE
  /\ emailData' = [subject |-> currentEmail.subject,
                   content |-> currentEmail.content,
                   recipient_email |-> OrElse(currentEmail.recipient_email, emailData.recipient_email),
                   recipient_name |-> OrElse(currentEmail.recipient_name, emailData.recipient_name)]
  /\ emailToast' = ""
  /\ UNCHANGED <<selectedParticipant, selectedParticipants, currentEmail, editedEmails,
                 trackingEnabled, isSending, isBulkSending, singleSend, bulkSend, edits>>
  /\ EmailFrame

\* handleResetEmail taken as restoring subject and content only
handleResetEmail_KeepsRecipient ==
  /\ currentEmail # NoEmail /\ ~isEditing
  /\ editedEmails[selectedParticipant] # NoEmail
  /\ editedEmails' = [editedEmails EXCEPT ![selectedParticipant] = NoEmail]
  /\ currentEmail' = OriginalEmail(selectedParticipant)
  /\ emailData' = [emailData EXCEPT !.subject = OriginalEmail(selectedParticipant).subject,
                                    !.content = OriginalEmail(selectedParticipant).content]
  /\ emailToast' = "Email reset to original version"
  /\ UNCHANGED <<selectedParticipant, selectedParticipants, isEditing, trackingEnabled,
                 isSending, isBulkSending, singleSend, bulkSend, edits>>
  /\ EmailFrame

\* handleResetEmail (the Reset button shows for an edited email, not editing)
handleResetEmail ==
  /\ currentEmail # NoEmail /\ ~isEditing
  /\ editedEmails[selectedParticipant] # NoEmail
  /\ editedEmails' = [editedEmails EXCEPT ![selectedParticipant] = NoEmail]
  /\ currentEmail' = OriginalEmail(selectedParticipant)
  /\ emailData' = [subject |-> OriginalEmail(selectedParticipant).subject,
                   content |-> OriginalEmail(selectedParticipant).content,
                   recipient_email |-> OrElse(ParticipantEmail(selectedParticipant),
                                              DefaultAddress(selectedParticipant)),
                   recipient_name |-> selectedParticipant]
  /\ emailToast' = "Email reset to original version"
  /\ UNCHANGED <<selectedParticipant, selectedParticipants, isEditing, trackingEnabled,
                 isSending, isBulkSending, singleSend, bulkSend, edits>>
  /\ EmailFrame

\* the tracking checkbox: setTrackingEnabled(e.target.checked)
ToggleTracking ==
  /\ currentEmail # NoEmail
  /\ trackingEnabled' = ~trackingEnabled
  /\ emailToast' = ""
  /\ UNCHANGED <<selectedParticipant, selectedParticipants, currentEmail, editedEmails,
                 isEditing, emailData, isSending, isBulkSending, singleSend, bulkSend, edits>>
  /\ EmailFrame

\* handleSendEmail up to its await: the validation, setIsSending(true),
\* sendEmail(emailPayload)
handleSendEmail ==
  /\ currentEmail # NoEmail /\ ~isSending /\ ~isEditing
  /\ IF Falsy(emailData.recipient_email) \/ Falsy(emailData.subject) \/ Falsy(emailData.content)
     THEN /\ emailToast' = "Please fill in all email fields"
          /\ UNCHANGED <<isSending, singleSend>>
     ELSE /\ isSending' = TRUE
          /\ singleSend' = EmailPayload(emailData.recipient_email, emailData.recipient_name,
                                        emailData.subject, emailData.content, trackingEnabled)
          /\ emailToast' = ""
  /\ UNCHANGED <<selectedParticipant, selectedParticipants, currentEmail, editedEmails,
                 isEditing, emailData, trackingEnabled, isBulkSending, bulkSend, edits>>
  /\ EmailFrame

\* handleSendEmail taken as sending again after an answer that is no success
SendAnswered_Retries(answer) ==
  /\ singleSend # NoPayload
  /\ singleSend' = IF answer = "success" THEN NoPayload ELSE singleSend
  /\ emailToast' = CASE answer = "success" -> "Email sent"
                     [] answer = "failure" -> "Failed to send email"
                     [] answer = "thrown" -> "Error sending email"
  /\ isSending' = (answer # "success")
  /\ UNCHANGED <<selectedParticipant, selectedParticipants, currentEmail, editedEmails,
                 isEditing, emailData, trackingEnabled, isBulkSending, bulkSend, edits>>
  /\ EmailFrame

\* handleSendEmail after its await: the toast of the answer; finally
SendAnswered(answer) ==
  /\ singleSend # NoPayload
  /\ singleSend' = NoPayload
  /\ emailToast' = CASE answer = "success" -> "Email sent"
                     [] answer = "failure" -> "Failed to send email"
                     [] answer = "thrown" -> "Error sending email"
  /\ isSending' = FALSE
  /\ UNCHANGED <<selectedParticipant, selectedParticipants, currentEmail, editedEmails,
                 isEditing, emailData, trackingEnabled, isBulkSending, bulkSend, edits>>
  /\ EmailFrame

\* the emailPayload of one pass of the loop of handleBulkSendEmails, from the
\* editedEmails and trackingEnabled of the render the handler was called in
BulkPayload(edited, name, tracking) ==
  EmailPayload(RecipientEmailFor(edited, name), RecipientNameFor(edited, name),
               EmailFor(edited, name).subject, EmailFor(edited, name).content, tracking)

\* handleBulkSendEmails up to its first await (the button shows only with a
\* participant selected): setIsBulkSending(true), the first sendEmail. The
\* loop runs over the selectedParticipants (kept as selected), editedEmails and
\* trackingEnabled the handler was called with, so the payloads of its passes
\* are fixed here;
\* todo[1] is the pass whose request is in flight
handleBulkSendEmails(order) ==
  /\ selectedParticipants # {} /\ ~isBulkSending /\ ~isEditing
  /\ order \in Orders(selectedParticipants)
  /\ isBulkSending' = TRUE
  /\ bulkSend' = [running |-> TRUE,
                  selected |-> selectedParticipants,
                  todo |-> [i \in 1..Len(order) |->
                              [participantName |-> order[i],
                               emailPayload |-> BulkPayload(editedEmails, order[i],
                                                            trackingEnabled)]],
                  successCount |-> 0, errorCount |-> 0]
  /\ emailToast' = ""
  /\ UNCHANGED <<selectedParticipant, selectedParticipants, currentEmail, editedEmails,
                 isEditing, emailData, trackingEnabled, isSending, singleSend, edits>>
  /\ EmailFrame

\* the loop of handleBulkSendEmails taken as ending at the first failed send
BulkAnswered_StopsOnFailure(answer) ==
  /\ bulkSend.running
  /\ LET rest == Tail(bulkSend.todo)
         successCount == bulkSend.successCount + (IF answer = "success" THEN 1 ELSE 0)
         errorCount == bulkSend.errorCount + (IF answer = "success" THEN 0 ELSE 1) IN
     IF rest # <<>> /\ answer = "success"
     THEN /\ bulkSend' = [bulkSend EXCEPT !.todo = rest, !.successCount = successCount,
                                          !.errorCount = errorCount]
          /\ emailToast' = ""
          /\ UNCHANGED <<selectedParticipants, isBulkSending>>
     ELSE /\ bulkSend' = NoBulk
          /\ emailToast' = IF errorCount > 0 THEN "Failed to send email(s)"
                           ELSE "Successfully sent email(s)"
          /\ selectedParticipants' = {}
          /\ isBulkSending' = FALSE
  /\ UNCHANGED <<selectedParticipant, currentEmail, editedEmails, isEditing, emailData,
                 trackingEnabled, isSending, singleSend, edits>>
  /\ EmailFrame

\* handleBulkSendEmails after an await: successCount++ or errorCount++; then the next
\* pass of the loop up to its await, or, after the last, the summary toasts
\* (the error toast is the last one when any send failed),
\* setSelectedParticipants(new Set()) and finally setIsBulkSending(false)
BulkAnswered(answer) ==
  /\ bulkSend.running
  /\ LET rest == Tail(bulkSend.todo)
         successCount == bulkSend.successCount + (IF answer = "success" THEN 1 ELSE 0)
         errorCount == bulkSend.errorCount + (IF answer = "success" THEN 0 ELSE 1) IN
     IF rest # <<>>
     THEN /\ bulkSend' = [bulkSend EXCEPT !.todo = rest, !.successCount = successCount,
                                          !.errorCount = errorCount]
          /\ emailToast' = ""
          /\ UNCHANGED <<selectedParticipants, isBulkSending>>
     ELSE /\ bulkSend' = NoBulk
          /\ emailToast' = IF errorCount > 0 THEN "Failed to send email(s)"
                           ELSE "Successfully sent email(s)"
          /\ selectedParticipants' = {}
          /\ isBulkSending' = FALSE
  /\ UNCHANGED <<selectedParticipant, currentEmail, editedEmails, isEditing, emailData,
                 trackingEnabled, isSending, singleSend, edits>>
  /\ EmailFrame

NextEmail ==
  \/ \E name \in ParticipantNames : handleParticipantSelect(name)
  \/ \E name \in ParticipantNames : handleParticipantToggle(name)
  \/ handleSelectAll
  \/ handleEdit
  \/ \E field \in EmailFields : \E value \in EmailInputValues : ChangeEmailField(field, value)
  \/ handleSave
  \/ handleCancel
  \/ handleResetEmail
  \/ ToggleTracking
  \/ handleSendEmail
  \/ \E answer \in SendAnswers : SendAnswered(answer)
  \/ \E order \in Orders(selectedParticipants) : handleBulkSendEmails(order)
  \/ \E answer \in SendAnswers : BulkAnswered(answer)

(***************************************************************************)
(* Admin: loadEmails, loadUsers, loadMeetings, loadProjects and their      *)
(* loading flags (Admin.js 195-392, 1110-1123); the loaded lists are left  *)
(* out                                                                     *)
(***************************************************************************)

\* bound: requests of one data set in flight at once
MaxAdminLoads == 2

\* the data sets of the page
LoadKinds == {"emails", "users", "meetings", "projects"}

\* what can be typed into the search filter of the emails tab
EmailSearches == {"", "a"}

\* useState([]) / useState({}): no emails and stats loaded yet
NoEmails == [loaded |-> FALSE, search |-> ""]

\* the loading flag of a data set
LoadingOf(kind) ==
  CASE kind = "emails" -> emailLoading
    [] kind = "users" -> userLoading
    [] kind = "meetings" -> meetingLoading
    [] kind = "projects" -> projectLoading

AdminFrame == UNCHANGED <<apiVars, routeVars, dashVars, projVars, homeVars, authVars, emailVars, hookVars, managerVars>>

\* after the first render and its effect: every flag starts true (useState(true))
\* and the effect has called the four loads
InitAdmin ==
  /\ emailLoading = TRUE
  /\ userLoading = TRUE
  /\ meetingLoading = TRUE
  /\ projectLoading = TRUE
  /\ loadsInFlight = [kind \in LoadKinds |-> 1]
  /\ adminToast = ""
  /\ emailFilters = ""
  /\ emails = NoEmails
  /\ emailReqs = <<"">>

\* load<Kind>() up to its await, for each of the kinds: setLoading(true), the
\* request; getEmailsAdmin is called with the filters of the calling render
StartLoads(kinds, filters) ==
  /\ \A kind \in kinds : loadsInFlight[kind] < MaxAdminLoads
  /\ emailReqs' = IF "emails" \in kinds THEN Append(emailReqs, filters) ELSE emailReqs
  /\ loadsInFlight' = [kind \in LoadKinds |->
                         loadsInFlight[kind] + (IF kind \in kinds THEN 1 ELSE 0)]
  /\ emailLoading' = ("emails" \in kinds \/ emailLoading)
  /\ userLoading' = ("users" \in kinds \/ userLoading)
  /\ meetingLoading' = ("meetings" \in kinds \/ meetingLoading)
  /\ projectLoading' = ("projects" \in kinds \/ projectLoading)
  /\ UNCHANGED <<adminToast, emails>>
  /\ AdminFrame

\* the tick of the effect's 30-second interval: the four loads
AdminEffect ==
  /\ StartLoads({"emails", "users", "meetings", "projects"}, emailFilters)
  /\ UNCHANGED emailFilters

\* handleEmailFilterChange('search', value): setEmailFilters, setCurrentPage(1);
\* the effect on [emailFilters, currentPage] runs again with the new filters
handleEmailFilterChange(value) ==
  /\ value # emailFilters
  /\ emailFilters' = value
  /\ StartLoads({"emails", "users", "meetings", "projects"}, value)

\* the floating button 'Refresh All Data', disabled while emails, users or
\* meetings are loading: loadEmails(), loadUsers(), loadMeetings()
RefreshAllData ==
  /\ ~(emailLoading \/ userLoading \/ meetingLoading)
  /\ StartLoads({"emails", "users", "meetings"}, emailFilters)
  /\ UNCHANGED emailFilters

\* a single load called by another handler of the page (after a cleanup, a
\* user, meeting or project change)
LoadAfterChange(kind) ==
  /\ StartLoads({kind}, emailFilters)
  /\ UNCHANGED emailFilters

\* load<Kind>() after its await, for the i-th request of the kind in flight:
\* the data (setEmails and setStats with what was returned for the request's
\* filters) or the toast of the catch; finally setLoading(false)
LoadAnswered(kind, i, ok) ==
  /\ i \in 1..loadsInFlight[kind]
  /\ loadsInFlight' = [loadsInFlight EXCEPT ![kind] = @ - 1]
  /\ IF kind = "emails"
     THEN /\ emailReqs' = RemoveAt(emailReqs, i)
          /\ emails' = IF ok THEN [loaded |-> TRUE, search |-> emailReqs[i]] ELSE emails
     ELSE UNCHANGED <<emailReqs, emails>>
  /\ UNCHANGED emailFilters
  /\ adminToast' = IF ok THEN adminToast ELSE "Failed to load " \o kind
  /\ emailLoading' = (kind # "emails" /\ emailLoading)
  /\ userLoading' = (kind # "users" /\ userLoading)
  /\ meetingLoading' = (kind # "meetings" /\ meetingLoading)
  /\ projectLoading' = (kind # "projects" /\ projectLoading)
  /\ AdminFrame

NextAdmin ==
  \/ AdminEffect
  \/ RefreshAllData
  \/ \E kind \in LoadKinds : LoadAfterChange(kind)
  \/ \E value \in EmailSearches : handleEmailFilterChange(value)
  \/ \E kind \in LoadKinds : \E i \in 1..MaxAdminLoads : \E ok \in BOOLEAN :
       LoadAnswered(kind, i, ok)

(***************************************************************************)
(* useApi and the ApiProvider above its callers (ApiContext.js 4, 412-464) *)
(***************************************************************************)

\* bound: ApiProviders nested above a component
MaxProviders == 2

\* the value objects ApiProvider renders build
ProviderValues == {"value of render 1", "value of render 2"}

\* the components that call useApi()
UseApiCallers == {"Home", "Admin", "ManagerPage", "EmailGeneration", "EmailComposer"}

HookFrame == UNCHANGED <<apiVars, routeVars, dashVars, projVars, homeVars, authVars, emailVars, adminVars, managerVars>>

InitHook ==
  /\ apiProviders = <<>>
  /\ useApiOutcome = [kind |-> "none"]

\* useContext(ApiContext): the value of the nearest provider, or the default
\* of createContext(), undefined
useContext(providers) ==
  IF providers = <<>> THEN Absent ELSE providers[Len(providers)]

\* useApi taken without its check of the context
useApi_NoCheck(context) == [kind |-> "returned", value |-> context]

\* useApi: if (!context) throw new Error(...); return context
useApi(context) ==
  IF Falsy(context)
  THEN [kind |-> "thrown", message |-> "useApi must be used within an ApiProvider"]
  ELSE [kind |-> "returned", value |-> context]

\* an ApiProvider is rendered around the components: <ApiContext.Provider value={value}>
MountApiProvider(value) ==
  /\ Len(apiProviders) < MaxProviders
  /\ apiProviders' = Append(apiProviders, value)
  /\ UNCHANGED useApiOutcome
  /\ HookFrame

\* the innermost ApiProvider is taken away
UnmountApiProvider ==
  /\ apiProviders # <<>>
  /\ apiProviders' = SubSeq(apiProviders, 1, Len(apiProviders) - 1)
  /\ UNCHANGED useApiOutcome
  /\ HookFrame

\* a component renders and calls useApi()
CallUseApi(caller) ==
  /\ useApiOutcome' = [caller |-> caller] @@ useApi(useContext(apiProviders))
  /\ UNCHANGED apiProviders
  /\ HookFrame

NextHook ==
  \/ \E value \in ProviderValues : MountApiProvider(value)
  \/ UnmountApiProvider
  \/ \E caller \in UseApiCallers : CallUseApi(caller)

(***************************************************************************)
(* Manager: selecting a project and loading its meetings (ManagerPage.js   *)
(* 7-51, handleProjectClick of part_001 56-65 does the same in one         *)
(* function); loadData has answered with three projects                    *)
(***************************************************************************)

\* bound: project-meetings requests in flight at once
MaxManagerReqs == 2

\* the ids of the projects in the list
ManagerProjectIds == {1, 2, 3}

\* useState([]): no project-meetings list was loaded
NoProjectMeetings == [loaded |-> FALSE, project |-> 0]

ManagerFrame == UNCHANGED <<apiVars, routeVars, dashVars, projVars, homeVars, authVars, emailVars, adminVars, hookVars>>

InitManager ==
  /\ managerSelected = 0
  /\ projectMeetings = NoProjectMeetings
  /\ projectMeetingsReqs = <<>>
  /\ managerToast = ""

\* handleProjectSelect(project): setSelectedProject(project), then
\* loadProjectMeetings(project.id) up to its await
handleProjectSelect(id) ==
  /\ Len(projectMeetingsReqs) < MaxManagerReqs
  /\ managerSelected' = id
  /\ projectMeetingsReqs' = Append(projectMeetingsReqs, id)
  /\ UNCHANGED <<projectMeetings, managerToast>>
  /\ ManagerFrame

\* loadProjectMeetings after its await, for the i-th call in flight: the
\* meetings returned for the project asked for, or the toast of the catch
ProjectMeetingsAnswered(i, ok) ==
  /\ i \in DOMAIN projectMeetingsReqs
  /\ projectMeetingsReqs' = RemoveAt(projectMeetingsReqs, i)
  /\ IF ok
     THEN /\ projectMeetings' = [loaded |-> TRUE, project |-> projectMeetingsReqs[i]]
          /\ UNCHANGED managerToast
     ELSE /\ managerToast' = "Failed to load project meetings"
          /\ UNCHANGED projectMeetings
  /\ UNCHANGED managerSelected
  /\ ManagerFrame

NextManager ==
  \/ \E id \in ManagerProjectIds : handleProjectSelect(id)
  \/ \E i \in 1..MaxManagerReqs : \E ok \in BOOLEAN : ProjectMeetingsAnswered(i, ok)

(***************************************************************************)
(* Specifications: one per component                                       *)
(***************************************************************************)

Init == InitApi /\ InitRoutes /\ InitDash /\ InitProj /\ InitHome /\ InitAuth /\ InitEmail /\ InitAdmin /\ InitHook /\ InitManager

SpecApi == Init /\ [][NextApi]_vars

SpecRoutes == Init /\ [][NextRoutes]_vars

SpecDash == Init /\ [][NextDash]_vars

SpecProj == Init /\ [][NextProj]_vars

SpecHome == Init /\ [][NextHome]_vars

SpecAuth == Init /\ [][NextAuth]_vars

SpecEmail == Init /\ [][NextEmail]_vars

\* Home and the EmailGeneration it shows, side by side: the analysis of the
\* sample transcript and the single send of an unedited email
NextAnalyzeSend ==
  \/ loadSampleData
  \/ handleSubmit
  \/ \E i \in 1..MaxAnalyze : \E answer \in AnalyzeAnswers : AnalyzeAnswered(i, answer)
  \/ DismissHomeError
  \/ \E name \in ParticipantNames : handleParticipantSelect(name)
  \/ handleSendEmail
  \/ \E answer \in SendAnswers : SendAnswered(answer)

SpecAnalyzeSend == Init /\ [][NextAnalyzeSend]_vars

SpecAdmin == Init /\ [][NextAdmin]_vars

SpecHook == Init /\ [][NextHook]_vars

SpecManager == Init /\ [][NextManager]_vars

(***************************************************************************)
(* Properties                                                              *)
(***************************************************************************)

\* C1: every request an ApiProvider function issues carries Authorization:
\* Bearer <token> when a token is stored at call time, and no Authorization
\* header when none is stored.
C1_EveryRequestCarriesStoredToken ==
  [][\A req \in apiInFlight' \ apiInFlight :
       req.authorization = (IF token = NoToken THEN NoHeader ELSE <<"Bearer", token>>)]_vars

\* C5: an Error thrown for a failed request whose response body carries a
\* detail or an error message has that server message; the fallback message
\* is used only when the response carries neither (or there is no response).
HasServerMessage(body) ==
  body.response /\ (body.detail \in ServerMessages \/ body.error \in ServerMessages)

C5_ThrownErrorHasServerMessage ==
  apiOutcome.kind = "thrown" =>
    IF HasServerMessage(apiOutcome.body)
    THEN apiOutcome.message \in {apiOutcome.body.detail, apiOutcome.body.error} \cap ServerMessages
    ELSE apiOutcome.message = FallbackMessage(apiOutcome.fn)

\* C2: while the auth state is not loading and isAuthenticated is false, no
\* route renders UserDashboard, Home or Admin: every requested path other
\* than /auth resolves to /auth, which renders AuthPage.
C2_UnauthenticatedResolvesToAuth ==
  (~authLoading /\ ~isAuthenticated) =>
    /\ rendered \in {Page("AuthPage"), NavigateTo("/auth")}
    /\ Location = "/auth" => rendered = Page("AuthPage")
    /\ \A p \in Paths :
         Resolve(p, authLoading, isAuthenticated, user) =
           [path |-> "/auth", element |-> Page("AuthPage")]

C2_Witness ==
  /\ ~authLoading /\ ~isAuthenticated
  /\ Len(history) = 2 /\ history[1] = "/dashboard" /\ Location = "/admin"
  /\ rendered = NavigateTo("/auth")

\* C3: Home (/) and Admin (/admin) are rendered only when the authenticated
\* user's role is 'admin'; an authenticated user with any other role (or none)
\* who requests either path is redirected to /dashboard.
C3_AdminPagesOnlyForAdmin ==
  /\ rendered \in {Page("Home"), Page("Admin")} =>
       ~authLoading /\ isAuthenticated /\ RoleOf(user) = "admin"
  /\ (~authLoading /\ isAuthenticated /\ RoleOf(user) # "admin") =>
       /\ Location \in {"/", "/admin"} => rendered = NavigateTo("/dashboard")
       /\ \A p \in {"/", "/admin"} :
            Resolve(p, authLoading, isAuthenticated, user) =
              [path |-> "/dashboard", element |-> Page("UserDashboard")]

C3_Witness ==
  /\ ~authLoading /\ isAuthenticated /\ RoleOf(user) = "manager"
  /\ Location = "/admin"
  /\ rendered = NavigateTo("/dashboard")

\* the order pending < in_progress < completed
Rank(status) ==
  CASE status = "pending" -> 0 [] status = "in_progress" -> 1 [] status = "completed" -> 2

\* the step in which the server processes the PUT at index i
ServerReceives(i) ==
  /\ i \in DOMAIN puts /\ Len(puts') = Len(puts)
  /\ puts[i].stage = "sent" /\ puts'[i].stage = "ok"

\* the step in which updateTaskStatus resumes with response.ok
UpdateSucceeds == \E i \in DOMAIN puts : puts[i].stage = "ok" /\ puts' = RemoveAt(puts, i)

\* the step in which updateTaskStatus resumes with a failed request
UpdateFails == \E i \in DOMAIN puts : puts[i].stage = "sent" /\ puts' = RemoveAt(puts, i)

\* the step in which the loadUserData call at index i, started by an update, ends
ReloadCompletes(i) ==
  /\ i \in DOMAIN loads /\ loads[i].origin = "update"
  /\ loads' = RemoveAt(loads, i)

\* C6: task status changes requested through the dashboard never move a task
\* backward in the order pending < in_progress < completed: every update
\* request has a new status in {in_progress, completed}, the server never
\* receives in_progress for a task it holds as completed, and a completed task
\* offers no status action, whatever is in flight.
C6_StatusNeverMovesBackward ==
  /\ [](/\ \A i \in DOMAIN puts : puts[i].status \in {"in_progress", "completed"}
        /\ \A t \in DOMAIN tasks :
             tasks[t] = "completed" => ~StartOffered(t) /\ ~CompleteOffered(t))
  /\ [][/\ \A i \in DOMAIN puts :
             ServerReceives(i) =>
               ~(puts[i].status = "in_progress" /\ serverTasks[puts[i].task] = "completed")
        /\ \A t \in TaskIds : Rank(serverTasks'[t]) >= Rank(serverTasks[t])]_vars

C8_ReloadShowsServerList ==
  [][/\ UpdateSucceeds =>
          /\ Len(loads') = Len(loads) + 1
          /\ loads'[Len(loads')].pc = "meetings"
          /\ dashLoading'
     /\ \A i \in DOMAIN loads :
          ReloadCompletes(i) => loads[i].pc = "tasks_ok" /\ tasks' = loads[i].snap
     /\ UpdateFails =>
          /\ loads' = loads /\ tasks' = tasks /\ meetings' = meetings
          /\ dashError' = "Failed to update task status"]_vars

\* C8 as amended: the displayed task list is replaced by the server's list
\* only if the reload's tasks request is answered 2xx; a reload that ends
\* otherwise leaves the task list as it was.
C8_ReloadShowsServerListIfAnswered ==
  [][/\ UpdateSucceeds =>
          /\ Len(loads') = Len(loads) + 1
          /\ loads'[Len(loads')].pc = "meetings"
          /\ dashLoading'
     /\ \A i \in DOMAIN loads :
          ReloadCompletes(i) =>
            /\ ~dashLoading'
            /\ IF loads[i].pc = "tasks_ok" THEN tasks' = loads[i].snap ELSE tasks' = tasks
     /\ UpdateFails =>
          /\ loads' = loads /\ tasks' = tasks /\ meetings' = meetings
          /\ dashError' = "Failed to update task status"]_vars

C8_Witness ==
  /\ puts = <<>> /\ loads = <<>> /\ ~dashLoading
  /\ tasks # EmptyList
  /\ \E t \in TaskIds : tasks[t] = "in_progress" /\ serverTasks[t] = "in_progress"

\* the step in which the project modal opens (ProjectForm mounts)
ProjectFormOpens == ~showProjectModal /\ showProjectModal'

\* C9: every project create or update payload submitted from ProjectForm has
\* a status in {active, completed, on_hold, cancelled}; a new project's status
\* is 'active' unless the user selects another value, and editing an existing
\* project starts from that project's current status. (The form opens with
\* 'active' or the project's status; while it is open its data changes only
\* by an edit of the user or by starting again from a project that has become
\* the selected one, and a form for an existing project never turns into a
\* form for a new one; the payload is the form's data.)
C9_ProjectPayloadStatus ==
  /\ [](\A i \in DOMAIN projReqs :
          projReqs[i].kind \in {"create", "update"} =>
            projReqs[i].payload.status \in ProjectStatuses)
  /\ [][/\ (ProjectFormOpens /\ selectedProject' = NoProject) => formData'.status = "active"
        /\ (ProjectFormOpens /\ selectedProject' # NoProject) =>
             /\ selectedProject' \in projects
             /\ formData'.status = selectedProject'.status
        /\ (showProjectModal /\ showProjectModal' /\ selectedProject' # selectedProject) =>
             /\ selectedProject' # NoProject
             /\ formData'.status = selectedProject'.status
        /\ (showProjectModal /\ showProjectModal' /\ formData'.status # formData.status) =>
             \/ /\ selectedProject' = selectedProject
                /\ formData' = [formData EXCEPT !.status = formData'.status]
                /\ formData'.status \in ProjectStatuses
                /\ projReqs' = projReqs
             \/ /\ selectedProject' # NoProject
                /\ Len(projReqs') < Len(projReqs)
                /\ formData'.status = selectedProject'.status
        /\ (Len(projReqs') = Len(projReqs) + 1
              /\ projReqs'[Len(projReqs')].kind \in {"create", "update"}) =>
             /\ projReqs'[Len(projReqs')].payload = formData
             /\ projReqs'[Len(projReqs')].kind = "create" <=> selectedProject = NoProject]_vars

C9_Witness ==
  /\ showProjectModal
  /\ selectedProject # NoProject /\ selectedProject.status = "on_hold"
  /\ \E i \in DOMAIN projReqs :
       projReqs[i].kind = "update" /\ projReqs[i].payload.status = "on_hold"

\* the files loaded or being loaded into the transcript
LoadingFiles == ({file} \cup {readers[i] : i \in DOMAIN readers}) \ {NoFile}

\* a step in which handleFileUpload rejects the selected file
FileRejected ==
  /\ homeToast' \in {"Please select a .txt file", "File size must be less than 5MB"}
  /\ homeToast' # homeToast

\* C10: handleFileUpload loads a selected file into the transcript only if
\* its type is text/plain and its size is less than 5MB (5*1024*1024 bytes);
\* a rejected file gets an error and leaves the transcript and the loaded
\* file unchanged.
C10_OnlyTextFilesUnderFiveMB ==
  /\ [](\A f \in LoadingFiles : f.type = "text/plain" /\ f.size < FiveMB)
  /\ [][FileRejected => UNCHANGED <<transcript, file, readers>>]_vars

\* a step in which a request of the dashboard ends in failure: a fetch
\* rejects, the tasks request or the status update is answered non-2xx
DashRequestFailed ==
  \E i \in 1..(MaxPuts + MaxLoads) : FetchRejected(i) \/ TasksNotOk(i) \/ PutFailed(i)

\* C4: every failed backend request of a component results in a user-visible
\* error notification; on the dashboard: after a request has failed the
\* error alert has a text.
C4_FailedRequestIsNotified ==
  [][DashRequestFailed => dashError' # ""]_vars

\* a text that is empty or has only whitespace
IsBlank(text) == \A i \in DOMAIN text : text[i] = " "

\* the step in which onAnalyze is invoked: an analyze request is issued
AnalyzeInvoked == Len(analyzeReqs') = Len(analyzeReqs) + 1

\* C11: onAnalyze is never invoked with a transcript that is empty or only
\* whitespace, whatever the typing, file loads, sample loads and submits:
\* handleSubmit forwards the transcript it holds only when its trim() is
\* non-empty, and a submit that shows the error makes no request.
C11_NeverAnalyzesBlankTranscript ==
  /\ [](\A i \in DOMAIN analyzeReqs : ~IsBlank(analyzeReqs[i]))
  /\ [][/\ AnalyzeInvoked =>
             /\ analyzeReqs'[Len(analyzeReqs')] = transcript
             /\ ~IsBlank(transcript)
        /\ (homeToast' = "Please enter or upload a meeting transcript"
              /\ homeToast' # homeToast) =>
             /\ IsBlank(transcript)
             /\ analyzeReqs' = analyzeReqs]_vars

C11_Witness ==
  /\ file # NoFile /\ transcript = file.content
  /\ analyzeReqs = <<transcript>>
  /\ isLoading

\* the step in which AuthPage calls login or register
AuthCallMade == Len(authReqs') = Len(authReqs) + 1

\* C12: in register mode AuthPage calls register only when password equals
\* confirmPassword and password has at least 6 characters; otherwise it sets a
\* local error message and makes no register or login request.
C12_RegisterOnlyWithValidPassword ==
  /\ [](\A i \in DOMAIN authReqs :
          authReqs[i].kind = "register" => Len(authReqs[i].password) >= 6)
  /\ [][/\ (AuthCallMade /\ ~isLogin) =>
             /\ authReqs'[Len(authReqs')].kind = "register"
             /\ authReqs'[Len(authReqs')].password = authForm.password
             /\ authForm.password = authForm.confirmPassword
             /\ Len(authForm.password) >= 6
        /\ (AuthCallMade /\ isLogin) => authReqs'[Len(authReqs')].kind = "login"
        /\ (localError' \in {"Passwords do not match",
                              "Password must be at least 6 characters long"}
              /\ localError' # localError) =>
             /\ ~isLogin
             /\ authReqs' = authReqs
             /\ (authForm.password # authForm.confirmPassword \/ Len(authForm.password) < 6)]_vars

C12_Witness ==
  /\ ~isLogin
  /\ localError = "Password must be at least 6 characters long"
  /\ Len(authForm.password) = 5 /\ authForm.confirmPassword = authForm.password
  /\ authReqs = <<>>


\* a single send request is issued by this step
SingleSendIssued == singleSend = NoPayload /\ singleSend' # NoPayload

\* Send Selected is pressed in this step
BulkSendPressed == ~bulkSend.running /\ bulkSend'.running

\* a running loop of handleBulkSendEmails issues the request of its next pass
BulkNextPass == bulkSend.running /\ bulkSend'.running /\ bulkSend' # bulkSend

\* C13 (as stated): a send request issued while the tracking checkbox is
\* unchecked never has tracking enabled, whether it is the single send, the
\* first request of a bulk send or a later request of a running bulk send
C13_NoTrackedSendWhileUnchecked ==
  [][/\ SingleSendIssued => (singleSend'.tracking_enabled => trackingEnabled)
     /\ (BulkSendPressed \/ BulkNextPass) =>
          (bulkSend'.todo[1].emailPayload.tracking_enabled => trackingEnabled)]_vars

\* C13 (amended): every send request carries the state the tracking checkbox
\* had when its send was pressed: the single send that of the press of Send
\* Email, every request of a bulk send that of the press of Send Selected,
\* which the later passes of the loop keep whatever the checkbox shows then
C13_TrackingOfThePress ==
  [][/\ SingleSendIssued => singleSend'.tracking_enabled = trackingEnabled
     /\ BulkSendPressed =>
          \A i \in DOMAIN bulkSend'.todo :
             bulkSend'.todo[i].emailPayload.tracking_enabled = trackingEnabled
     /\ BulkNextPass => bulkSend'.todo = Tail(bulkSend.todo)]_vars

\* a later request of a bulk send is in flight with tracking enabled while
\* the checkbox is unchecked
C13_Witness ==
  /\ bulkSend.running /\ bulkSend.successCount + bulkSend.errorCount >= 1
  /\ bulkSend.todo[1].emailPayload.tracking_enabled /\ ~trackingEnabled


\* the payload carries the four fields of a saved email
CarriesSaved(payload, saved) ==
  /\ payload.email_subject = saved.subject
  /\ payload.email_content = saved.content
  /\ payload.recipient_email = saved.recipient_email
  /\ payload.recipient_name = saved.recipient_name

\* the payload carries the subject and content of a saved email, and its
\* recipient name and recipient email where those were saved non-empty
CarriesSavedNonEmpty(payload, saved) ==
  /\ payload.email_subject = saved.subject
  /\ payload.email_content = saved.content
  /\ ~Falsy(saved.recipient_email) => payload.recipient_email = saved.recipient_email
  /\ ~Falsy(saved.recipient_name) => payload.recipient_name = saved.recipient_name

\* C14 (as stated): every send request issued for a participant whose email
\* has a saved edit (single send, first or later request of a bulk send)
\* carries the saved subject, content, recipient name and recipient email
C14_SendsUseSavedEdit ==
  [][/\ (SingleSendIssued /\ editedEmails[selectedParticipant] # NoEmail) =>
          CarriesSaved(singleSend', editedEmails[selectedParticipant])
     /\ ((BulkSendPressed \/ BulkNextPass)
           /\ editedEmails[bulkSend'.todo[1].participantName] # NoEmail) =>
          CarriesSaved(bulkSend'.todo[1].emailPayload,
                       editedEmails[bulkSend'.todo[1].participantName])]_vars

\* C14 (amended): a send pressed while a participant's email has a saved edit
\* (Send Email for the selected participant, Send Selected for every selected
\* one) sends the saved subject and content, and the saved recipient name and
\* recipient email where they are non-empty; the later requests of a bulk
\* send are those fixed when Send Selected was pressed
C14_SendsPressedAfterSaveUseIt ==
  [][/\ (SingleSendIssued /\ editedEmails[selectedParticipant] # NoEmail) =>
          CarriesSavedNonEmpty(singleSend', editedEmails[selectedParticipant])
     /\ BulkSendPressed =>
          \A i \in DOMAIN bulkSend'.todo :
             editedEmails[bulkSend'.todo[i].participantName] # NoEmail =>
               CarriesSavedNonEmpty(bulkSend'.todo[i].emailPayload,
                                    editedEmails[bulkSend'.todo[i].participantName])
     /\ BulkNextPass => bulkSend'.todo = Tail(bulkSend.todo)]_vars

\* a bulk request with the saved subject is in flight for a participant
\* whose edit was saved before another participant was selected
C14_Witness ==
  /\ bulkSend.running
  /\ bulkSend.todo[1].participantName # selectedParticipant
  /\ editedEmails[bulkSend.todo[1].participantName] # NoEmail
  /\ bulkSend.todo[1].emailPayload.email_subject = "edited"
  /\ editedEmails[bulkSend.todo[1].participantName].subject = "edited"


\* C15: in Home isLoading is true exactly while an analyze request is in
\* flight, whatever the answer of the earlier ones was, and never are two
\* analyze requests in flight
C15_LoadingWhileAnalyzeInFlight ==
  /\ isLoading <=> analyzeReqs # <<>>
  /\ Len(analyzeReqs) <= 1

\* an analysis is loading again after an earlier one succeeded
C15_Witness ==
  /\ isLoading /\ Len(analyzeReqs) = 1
  /\ homeToast = "Meeting transcript analyzed successfully!"

\* C16: when handleAnalyze starts, the results and error on display are
\* cleared; when it completes, results is set if and only if the answer had
\* success = true, and otherwise error is the failure message and results
\* stays null, so that exactly one of the two is non-null
C16_ResultsOrError ==
  [][/\ AnalyzeInvoked => (results' = NoResults /\ homeError' = NoError)
     /\ \A i \in 1..MaxAnalyze : \A answer \in AnalyzeAnswers :
          AnalyzeAnswered(i, answer) =>
            /\ (results' # NoResults) # (homeError' # NoError)
            /\ results' # NoResults <=> (~answer.thrown /\ answer.success)
            /\ results' = NoResults =>
                 homeError' = OrElse(answer.error, "Failed to analyze transcript")]_vars

\* an analysis has failed with the server's message: error is on display,
\* results is null
C16_Witness ==
  /\ ~isLoading /\ analyzeReqs = <<>>
  /\ homeError = "server error" /\ homeToast = "server error"
  /\ results = NoResults


\* an analyze request fails in this step: its message goes on display
AnalyzeFailed == analyzeReqs # <<>> /\ homeError = NoError /\ homeError' # NoError

\* the single send request fails in this step: the toast of the failure
SendFailed ==
  /\ singleSend # NoPayload
  /\ emailToast' \in {"Failed to send email", "Error sending email"}

\* C17: an analyze request starts only with a press of Analyze, which
\* issues exactly one; a send request only with a press of Send Email, which
\* issues at most one; the step in which a request fails leaves no request
\* of that kind in flight, so none is issued again before the next press
C17_NoAutomaticRetry ==
  [][/\ Len(analyzeReqs') > Len(analyzeReqs) => handleSubmit
     /\ handleSubmit => Len(analyzeReqs') = Len(analyzeReqs) + 1
     /\ AnalyzeFailed => analyzeReqs' = <<>>
     /\ (singleSend' # NoPayload /\ singleSend' # singleSend) =>
          (handleSendEmail /\ singleSend = NoPayload)
     /\ SendFailed => (singleSend' = NoPayload /\ ~isSending')]_vars

\* an analysis and a single send have both failed and nothing is in flight
C17_Witness ==
  /\ homeError # NoError /\ analyzeReqs = <<>> /\ ~isLoading
  /\ emailToast = "Failed to send email" /\ singleSend = NoPayload /\ ~isSending


\* C18: whenever a load of a data set is in flight, the loading flag of that
\* data set is true, also when several loads of it overlap
C18_LoadingWhileAnyLoadInFlight ==
  \A kind \in LoadKinds : loadsInFlight[kind] > 0 => LoadingOf(kind)

\* C19: a press of the floating button 'Refresh All Data' starts a load of
\* each of the four data sets: emails, users, meetings and projects
C19_RefreshAllReloadsEverything ==
  [][RefreshAllData =>
       \A kind \in LoadKinds : loadsInFlight'[kind] = loadsInFlight[kind] + 1]_vars


\* recipient email, subject and content of the payload are non-empty
PayloadFilled(payload) ==
  /\ ~Falsy(payload.recipient_email)
  /\ ~Falsy(payload.email_subject)
  /\ ~Falsy(payload.email_content)

\* C20: no send request of EmailGeneration, from Send Email or from Send
\* Selected, is in flight with an empty recipient email, subject or content
C20_NoSendWithEmptyField ==
  /\ singleSend # NoPayload => PayloadFilled(singleSend)
  /\ bulkSend.running => PayloadFilled(bulkSend.todo[1].emailPayload)


\* C23: in EmailGeneration a single send and a bulk send are never in
\* progress together
C23_OneSendOperationAtATime ==
  ~(/\ isSending /\ singleSend # NoPayload
    /\ isBulkSending /\ bulkSend.running)


\* editedEmails with no edit saved
NoEdits == [name \in ParticipantNames |-> NoEmail]

\* C24: with no edit saved for the selected participant, the form outside
\* edit mode shows what selecting the participant put there: whatever was
\* changed between Edit and Cancel is gone, and Send Email sends that
C24_CancelRestoresEmailData ==
  (/\ selectedParticipant \in ParticipantNames /\ ~isEditing
   /\ editedEmails[selectedParticipant] = NoEmail) =>
     emailData = EmailDataFor(NoEdits, selectedParticipant)

\* C25: handleResetEmail removes the selected participant's saved edit, leaves
\* the saved edits of the others as they are, and sets emailData to what
\* selecting that participant gives when no edit was ever saved
C25_ResetRestoresOriginal ==
  [][handleResetEmail =>
       /\ editedEmails'[selectedParticipant] = NoEmail
       /\ \A name \in ParticipantNames \ {selectedParticipant} :
            editedEmails'[name] = editedEmails[name]
       /\ emailData' = EmailDataFor(NoEdits, selectedParticipant)
       /\ emailData' = EmailDataFor(editedEmails', selectedParticipant)]_vars

\* after a field was changed and two emails were saved, the selected one has
\* just been reset while the other participant keeps its saved edit
C25_Witness ==
  /\ emailToast = "Email reset to original version"
  /\ selectedParticipant \in ParticipantNames
  /\ editedEmails[selectedParticipant] = NoEmail
  /\ edits = MaxEdits
  /\ \E name \in ParticipantNames \ {selectedParticipant} : editedEmails[name] # NoEmail


\* the running bulk send ends in this step
BulkSendEnds == bulkSend.running /\ ~bulkSend'.running

\* C26: while a bulk send runs, the participants still to be sent to are
\* distinct, were selected at its start and, with those already counted as
\* success or error, are as many as were selected then; whatever the answers
\* are it goes on to the next one, and it ends only after the last, with
\* successCount + errorCount the number selected at its start and
\* isBulkSending false
C26_BulkSendsToEachSelectedOnce ==
  /\ [](bulkSend.running =>
          /\ \A i, j \in DOMAIN bulkSend.todo :
               bulkSend.todo[i].participantName = bulkSend.todo[j].participantName => i = j
          /\ \A i \in DOMAIN bulkSend.todo : bulkSend.todo[i].participantName \in bulkSend.selected
          /\ bulkSend.successCount + bulkSend.errorCount + Len(bulkSend.todo)
               = Cardinality(bulkSend.selected))
  /\ [][/\ BulkSendPressed => bulkSend'.selected = selectedParticipants
        /\ BulkNextPass => bulkSend'.todo = Tail(bulkSend.todo)
        /\ BulkSendEnds =>
             /\ bulkSend.successCount + bulkSend.errorCount + 1 = Cardinality(bulkSend.selected)
             /\ ~isBulkSending']_vars

\* a bulk send to two participants goes on with the second after the first
\* send failed
C26_Witness ==
  /\ bulkSend.running /\ isBulkSending
  /\ Cardinality(bulkSend.selected) = 2
  /\ bulkSend.errorCount = 1 /\ Len(bulkSend.todo) = 1


\* C27: a call of useApi under an ApiProvider returns the value of the
\* nearest one; with no provider above the caller it throws 'useApi must be
\* used within an ApiProvider'; it never returns undefined
C27_UseApiReturnsValueOrThrows ==
  /\ [](useApiOutcome.kind = "returned" => useApiOutcome.value \in ProviderValues)
  /\ [][\A caller \in UseApiCallers : CallUseApi(caller) =>
          IF apiProviders = <<>>
          THEN /\ useApiOutcome'.kind = "thrown"
               /\ useApiOutcome'.message = "useApi must be used within an ApiProvider"
          ELSE /\ useApiOutcome'.kind = "returned"
               /\ useApiOutcome'.value = apiProviders[Len(apiProviders)]]_vars

\* a component has called useApi with no ApiProvider above it
C27_Witness ==
  /\ apiProviders = <<>>
  /\ useApiOutcome.kind = "thrown"
  /\ useApiOutcome.caller = "EmailComposer"


\* C21: when no loadEmails request is outstanding and none has failed, the
\* emails and stats shown are those returned for the current emailFilters,
\* whatever the order of the answers was
C21_EmailsShownAreForCurrentFilters ==
  (emailReqs = <<>> /\ emails.loaded /\ adminToast = "") => emails.search = emailFilters


\* C22: in Manager, whenever a project is selected and no project-meetings
\* request is in flight, projectMeetings is the list that was returned for
\* the selected project
C22_ProjectMeetingsOfSelectedProject ==
  (managerSelected # 0 /\ projectMeetingsReqs = <<>>) =>
    projectMeetings = [loaded |-> TRUE, project |-> managerSelected]

====
